---- MODULE Spec2Model ----
\* Model of src/src/agent_scaffolder/tools.py :: define_dynamic_tools.
\* Text is modelled character by character: a string is a sequence of
\* one-character strings, and the regular expressions of the source are
\* translated into matchers over those sequences.
EXTENDS Integers, Sequences, FiniteSets, TLC

\* ---------------------------------------------------------------------
\* String literals of the source, as character sequences.
\* ---------------------------------------------------------------------
\* '# Auto-generated tool stubs for ' (src/src/agent_scaffolder/tools.py:116)
HeaderPre ==
  <<"#", " ", "A", "u", "t", "o", "-", "g", "e", "n", "e", "r", "a", "t", "e", "d", " ", "t", "o", "o", "l", " ", "s", "t", "u", "b", "s", " ", "f", "o", "r", " ">>

\* '\nfrom __future__ import annotations\nfrom typing import Any, Dict, List, Optional\nfrom solace_ai_connector.common.log import log\n\n' (src/src/agent_scaffolder/tools.py:117)
HeaderPost ==
  <<"\n", "f", "r", "o", "m", " ", "_", "_", "f", "u", "t", "u", "r", "e", "_", "_", " ", "i", "m", "p", "o", "r", "t", " ", "a", "n", "n", "o", "t", "a", "t", "i", "o", "n", "s", "\n", "f", "r", "o", "m", " ", "t", "y", "p", "i", "n", "g", " ", "i", "m", "p", "o", "r", "t", " ", "A", "n", "y", ",", " ", "D", "i", "c", "t", ",", " ", "L", "i", "s", "t", ",", " ", "O", "p", "t", "i", "o", "n", "a", "l", "\n", "f", "r", "o", "m", " ", "s", "o", "l", "a", "c", "e", "_", "a", "i", "_", "c", "o", "n", "n", "e", "c", "t", "o", "r", ".", "c", "o", "m", "m", "o", "n", ".", "l", "o", "g", " ", "i", "m", "p", "o", "r", "t", " ", "l", "o", "g", "\n", "\n">>

\* 'async def ' (src/src/agent_scaffolder/tools.py:100)
AsyncDef ==
  <<"a", "s", "y", "n", "c", " ", "d", "e", "f", " ">>

\* ') -> ' (src/src/agent_scaffolder/tools.py:100)
Arrow ==
  <<")", " ", "-", ">", " ">>

\* ':' (src/src/agent_scaffolder/tools.py:100)
Colon ==
  <<":">>

\* '    ' (src/src/agent_scaffolder/tools.py:101)
Indent ==
  <<" ", " ", " ", " ">>

\* '    log.info("[' (src/src/agent_scaffolder/tools.py:103)
LogPre ==
  <<" ", " ", " ", " ", "l", "o", "g", ".", "i", "n", "f", "o", "(", "\"", "[">>

\* '] called")' (src/src/agent_scaffolder/tools.py:103)
LogPost ==
  <<"]", " ", "c", "a", "l", "l", "e", "d", "\"", ")">>

\* '"""' (src/src/agent_scaffolder/tools.py:61)
TripleQuote ==
  <<"\"", "\"", "\"">>

\* 'Args:' (src/src/agent_scaffolder/tools.py:64)
ArgsHdr ==
  <<"A", "r", "g", "s", ":">>

\* 'Returns:' (src/src/agent_scaffolder/tools.py:72)
ReturnsHdr ==
  <<"R", "e", "t", "u", "r", "n", "s", ":">>

\* '  ' (src/src/agent_scaffolder/tools.py:69)
TwoSp ==
  <<" ", " ">>

\* ' (' (src/src/agent_scaffolder/tools.py:69)
SpParen ==
  <<" ", "(">>

\* '): ' (src/src/agent_scaffolder/tools.py:69)
ParenColonSp ==
  <<")", ":", " ">>

\* ': ' (src/src/agent_scaffolder/tools.py:53)
ColonSp ==
  <<":", " ">>

\* ' = ' (src/src/agent_scaffolder/tools.py:53)
EqSp ==
  <<" ", "=", " ">>

\* ', ' (src/src/agent_scaffolder/tools.py:58)
CommaSp ==
  <<",", " ">>

\* 'tool_context=None' (src/src/agent_scaffolder/tools.py:56)
ToolContextParam ==
  <<"t", "o", "o", "l", "_", "c", "o", "n", "t", "e", "x", "t", "=", "N", "o", "n", "e">>

\* 'tool_config: Optional[Dict[str, Any]] = None' (src/src/agent_scaffolder/tools.py:57)
ToolConfigParam ==
  <<"t", "o", "o", "l", "_", "c", "o", "n", "f", "i", "g", ":", " ", "O", "p", "t", "i", "o", "n", "a", "l", "[", "D", "i", "c", "t", "[", "s", "t", "r", ",", " ", "A", "n", "y", "]", "]", " ", "=", " ", "N", "o", "n", "e">>

\* 'Any' (src/src/agent_scaffolder/tools.py:50)
AnyType ==
  <<"A", "n", "y">>

\* 'No description provided.' (src/src/agent_scaffolder/tools.py:91)
NoDescription ==
  <<"N", "o", " ", "d", "e", "s", "c", "r", "i", "p", "t", "i", "o", "n", " ", "p", "r", "o", "v", "i", "d", "e", "d", ".">>

\* '\n    ' (src/src/agent_scaffolder/tools.py:77)
DocSep ==
  <<"\n", " ", " ", " ", " ">>

\* '    result = {"status": "ok", "note": "Replace with real logic"}\n    return result\n' (src/src/agent_scaffolder/tools.py:82)
DictBody ==
  <<" ", " ", " ", " ", "r", "e", "s", "u", "l", "t", " ", "=", " ", "{", "\"", "s", "t", "a", "t", "u", "s", "\"", ":", " ", "\"", "o", "k", "\"", ",", " ", "\"", "n", "o", "t", "e", "\"", ":", " ", "\"", "R", "e", "p", "l", "a", "c", "e", " ", "w", "i", "t", "h", " ", "r", "e", "a", "l", " ", "l", "o", "g", "i", "c", "\"", "}", "\n", " ", " ", " ", " ", "r", "e", "t", "u", "r", "n", " ", "r", "e", "s", "u", "l", "t", "\n">>

\* '    return "OK (replace with real logic)"\n' (src/src/agent_scaffolder/tools.py:83)
StrBody ==
  <<" ", " ", " ", " ", "r", "e", "t", "u", "r", "n", " ", "\"", "O", "K", " ", "(", "r", "e", "p", "l", "a", "c", "e", " ", "w", "i", "t", "h", " ", "r", "e", "a", "l", " ", "l", "o", "g", "i", "c", ")", "\"", "\n">>

\* 'dict' (src/src/agent_scaffolder/tools.py:81)
DictWord ==
  <<"d", "i", "c", "t">>

\* 'mapping' (src/src/agent_scaffolder/tools.py:81)
MappingWord ==
  <<"m", "a", "p", "p", "i", "n", "g">>

\* '\n' (src/src/agent_scaffolder/tools.py:113)
Newline ==
  <<"\n">>

\* ' (invalid: ' (src/src/agent_scaffolder/tools.py:201)
InvalidPre ==
  <<" ", "(", "i", "n", "v", "a", "l", "i", "d", ":", " ">>

\* "Invalid function identifier: '" (src/src/agent_scaffolder/tools.py:18)
InvalidFunctionMsg ==
  <<"I", "n", "v", "a", "l", "i", "d", " ", "f", "u", "n", "c", "t", "i", "o", "n", " ", "i", "d", "e", "n", "t", "i", "f", "i", "e", "r", ":", " ", "'">>

\* '<missing>' (src/src/agent_scaffolder/tools.py:201)
MissingName ==
  <<"<", "m", "i", "s", "s", "i", "n", "g", ">">>

\* "'function_name'" (src/src/agent_scaffolder/tools.py:199)
KeyErrorFunctionName ==
  <<"'", "f", "u", "n", "c", "t", "i", "o", "n", "_", "n", "a", "m", "e", "'">>

\* "'" (src/src/agent_scaffolder/tools.py:52)
Quote ==
  <<"'">>

\* 'async' (src/src/agent_scaffolder/tools.py:86)
AsyncWord ==
  <<"a", "s", "y", "n", "c">>

\* 'def' (src/src/agent_scaffolder/tools.py:86)
DefWord ==
  <<"d", "e", "f">>

\* '->' (src/src/agent_scaffolder/tools.py:212)
ArrowTail ==
  <<"-", ">">>

\* '- tool_type: python\n' (src/src/agent_scaffolder/tools.py:126)
YamlToolType ==
  <<"-", " ", "t", "o", "o", "l", "_", "t", "y", "p", "e", ":", " ", "p", "y", "t", "h", "o", "n", "\n">>

\* '  component_module: "' (src/src/agent_scaffolder/tools.py:127)
YamlModulePre ==
  <<" ", " ", "c", "o", "m", "p", "o", "n", "e", "n", "t", "_", "m", "o", "d", "u", "l", "e", ":", " ", "\"">>

\* '"\n' (src/src/agent_scaffolder/tools.py:127)
YamlQuoteNl ==
  <<"\"", "\n">>

\* '  component_base_path: .\n' (src/src/agent_scaffolder/tools.py:128)
YamlBasePath ==
  <<" ", " ", "c", "o", "m", "p", "o", "n", "e", "n", "t", "_", "b", "a", "s", "e", "_", "p", "a", "t", "h", ":", " ", ".", "\n">>

\* '  function_name: "' (src/src/agent_scaffolder/tools.py:129)
YamlFnPre ==
  <<" ", " ", "f", "u", "n", "c", "t", "i", "o", "n", "_", "n", "a", "m", "e", ":", " ", "\"">>

\* '  tool_description: "' (src/src/agent_scaffolder/tools.py:130)
YamlDescPre ==
  <<" ", " ", "t", "o", "o", "l", "_", "d", "e", "s", "c", "r", "i", "p", "t", "i", "o", "n", ":", " ", "\"">>

\* ' tool.' (src/src/agent_scaffolder/tools.py:124)
ToolSuffix ==
  <<" ", "t", "o", "o", "l", ".">>

\* 'src.' (src/src/agent_scaffolder/tools.py:185)
SrcPrefix ==
  <<"s", "r", "c", ".">>

\* '.tools' (src/src/agent_scaffolder/tools.py:185)
ToolsSuffix ==
  <<".", "t", "o", "o", "l", "s">>

\* ---------------------------------------------------------------------
\* Character classes and generic string operations.
\* ---------------------------------------------------------------------
Range(s) == {s[i] : i \in DOMAIN s}

Min(S) == CHOOSE x \in S : \A y \in S : x <= y
\* max(a, b)
Max(a, b) == IF a >= b THEN a ELSE b

\* A character of a Python str is one element of a sequence: the
\* one-character TLA+ string for printable ASCII (except the backquote,
\* which has no string literal), tab, newline, carriage return and form
\* feed, and "U+XXXX" (four upper-case hex digits) for every other
\* codepoint.
\* Characters 0..127 that have a TLA+ string literal, by codepoint + 1;
\* the others are spelled "U+XXXX" (see Chr).
AsciiSeq ==
  <<"U+0000", "U+0001", "U+0002", "U+0003", "U+0004", "U+0005", "U+0006", "U+0007",
    "U+0008", "\t", "\n", "U+000B", "\f", "\r", "U+000E", "U+000F",
    "U+0010", "U+0011", "U+0012", "U+0013", "U+0014", "U+0015", "U+0016", "U+0017",
    "U+0018", "U+0019", "U+001A", "U+001B", "U+001C", "U+001D", "U+001E", "U+001F",
    " ", "!", "\"", "#", "$", "%", "&", "'",
    "(", ")", "*", "+", ",", "-", ".", "/",
    "0", "1", "2", "3", "4", "5", "6", "7",
    "8", "9", ":", ";", "<", "=", ">", "?",
    "@", "A", "B", "C", "D", "E", "F", "G",
    "H", "I", "J", "K", "L", "M", "N", "O",
    "P", "Q", "R", "S", "T", "U", "V", "W",
    "X", "Y", "Z", "[", "\\", "]", "^", "_",
    "U+0060", "a", "b", "c", "d", "e", "f", "g",
    "h", "i", "j", "k", "l", "m", "n", "o",
    "p", "q", "r", "s", "t", "u", "v", "w",
    "x", "y", "z", "{", "|", "}", "~", "U+007F">>

\* The codepoints the model's strings are made of: Latin (0000-02AF),
\* combining marks, small omega, Cyrillic, the Unicode spaces, General
\* Punctuation, Letterlike Symbols, Latin Extended-C and the BOM.
Codes ==
  0..687 \cup 768..879 \cup {969} \cup 1024..1279 \cup {5760} \cup {7549} \cup 8192..8303 \cup 8448..8527 \cup 11360..11391 \cup {12288} \cup {65279}

\* str.isspace(): the class of \s in a str pattern and the default set of
\* str.strip()
WSCodes == 9..13 \cup 28..32 \cup {133} \cup {160} \cup {5760} \cup 8192..8202 \cup 8232..8233 \cup {8239} \cup {8287} \cup {12288}

\* The line boundaries of str.splitlines() (\r\n counts as one)
LineBreakCodes == 10..13 \cup 28..30 \cup {133} \cup 8232..8233

\* not str.isprintable(): repr() escapes these
NonPrintableCodes ==
  0..31 \cup 127..160 \cup {173} \cup {5760} \cup 8192..8207 \cup 8232..8239 \cup 8287..8303 \cup {12288} \cup {65279}

\* str.lower() of the single-character strings it changes, as runs
\* [from, to, step, delta]: every step-th codepoint c of from..to lowers
\* to c + delta.
LowerRuns ==
  <<<<65, 90, 1, 32>>, <<192, 214, 1, 32>>, <<216, 222, 1, 32>>, <<256, 302, 2, 1>>,
    <<306, 310, 2, 1>>, <<313, 327, 2, 1>>, <<330, 374, 2, 1>>, <<376, 376, 1, -121>>,
    <<377, 381, 2, 1>>, <<385, 385, 1, 210>>, <<386, 388, 2, 1>>, <<390, 390, 1, 206>>,
    <<391, 391, 1, 1>>, <<393, 394, 1, 205>>, <<395, 395, 1, 1>>, <<398, 398, 1, 79>>,
    <<399, 399, 1, 202>>, <<400, 400, 1, 203>>, <<401, 401, 1, 1>>, <<403, 403, 1, 205>>,
    <<404, 404, 1, 207>>, <<406, 406, 1, 211>>, <<407, 407, 1, 209>>, <<408, 408, 1, 1>>,
    <<412, 412, 1, 211>>, <<413, 413, 1, 213>>, <<415, 415, 1, 214>>, <<416, 420, 2, 1>>,
    <<422, 422, 1, 218>>, <<423, 423, 1, 1>>, <<425, 425, 1, 218>>, <<428, 428, 1, 1>>,
    <<430, 430, 1, 218>>, <<431, 431, 1, 1>>, <<433, 434, 1, 217>>, <<435, 437, 2, 1>>,
    <<439, 439, 1, 219>>, <<440, 440, 1, 1>>, <<444, 444, 1, 1>>, <<452, 452, 1, 2>>,
    <<453, 453, 1, 1>>, <<455, 455, 1, 2>>, <<456, 456, 1, 1>>, <<458, 458, 1, 2>>,
    <<459, 475, 2, 1>>, <<478, 494, 2, 1>>, <<497, 497, 1, 2>>, <<498, 500, 2, 1>>,
    <<502, 502, 1, -97>>, <<503, 503, 1, -56>>, <<504, 542, 2, 1>>, <<544, 544, 1, -130>>,
    <<546, 562, 2, 1>>, <<570, 570, 1, 10795>>, <<571, 571, 1, 1>>, <<573, 573, 1, -163>>,
    <<574, 574, 1, 10792>>, <<577, 577, 1, 1>>, <<579, 579, 1, -195>>, <<580, 580, 1, 69>>,
    <<581, 581, 1, 71>>, <<582, 590, 2, 1>>, <<1024, 1039, 1, 80>>, <<1040, 1071, 1, 32>>,
    <<1120, 1152, 2, 1>>, <<1162, 1214, 2, 1>>, <<1216, 1216, 1, 15>>, <<1217, 1229, 2, 1>>,
    <<1232, 1278, 2, 1>>, <<8486, 8486, 1, -7517>>, <<8490, 8490, 1, -8383>>, <<8491, 8491, 1, -8262>>,
    <<8498, 8498, 1, 28>>, <<11360, 11360, 1, 1>>, <<11362, 11362, 1, -10743>>, <<11363, 11363, 1, -3814>>,
    <<11364, 11364, 1, -10727>>, <<11367, 11371, 2, 1>>, <<11373, 11373, 1, -10780>>, <<11374, 11374, 1, -10749>>,
    <<11375, 11375, 1, -10783>>, <<11376, 11376, 1, -10782>>, <<11378, 11378, 1, 1>>, <<11381, 11381, 1, 1>>,
    <<11390, 11391, 1, -10815>>>>

HexUpper == <<"0", "1", "2", "3", "4", "5", "6", "7", "8", "9", "A", "B", "C", "D", "E", "F">>
HexLower == <<"0", "1", "2", "3", "4", "5", "6", "7", "8", "9", "a", "b", "c", "d", "e", "f">>

\* The k lower-case hex digits of n, as characters.
HexDigits(n, k) == [i \in 1..k |-> HexLower[((n \div (16 ^ (k - i))) % 16) + 1]]

\* chr(n)
Chr(n) ==
  IF n < 128 THEN AsciiSeq[n + 1]
  ELSE "U+" \o HexUpper[((n \div 4096) % 16) + 1] \o HexUpper[((n \div 256) % 16) + 1]
            \o HexUpper[((n \div 16) % 16) + 1] \o HexUpper[(n % 16) + 1]

Chars == {Chr(n) : n \in Codes}

\* UTF-8 (write_text's encoding): every code below 128 is one byte, below
\* 2048 two, the rest of Codes (all below 65536) three.
AsciiChars == {Chr(n) : n \in 0..127}
TwoByteChars == {Chr(n) : n \in Codes \cap 128..2047}
\* A lone UTF-8 continuation byte b (128..191) left in a file by a partial
\* overwrite: "B+" and two hex digits.
StrayByte(b) == "B+" \o HexUpper[(b \div 16) + 1] \o HexUpper[(b % 16) + 1]
StrayBytes == {StrayByte(b) : b \in 128..191}
ByteLen(c) ==
  IF c \in AsciiChars \/ c \in StrayBytes THEN 1 ELSE IF c \in TwoByteChars THEN 2 ELSE 3
CodeOf(c) == CHOOSE n \in Codes : Chr(n) = c
\* The continuation bytes of a multi-byte character, in order.
ContBytes(c) ==
  LET n == CodeOf(c)
  IN IF ByteLen(c) = 2 THEN <<128 + (n % 64)>>
     ELSE <<128 + ((n \div 64) % 64), 128 + (n % 64)>>
\* Bytes of s[1..j-1].
BytesBefore(s, j) ==
  (j - 1) + Cardinality({i \in 1..(j - 1) : ByteLen(s[i]) >= 2})
          + Cardinality({i \in 1..(j - 1) : ByteLen(s[i]) = 3})
ByteCount(s) == BytesBefore(s, Len(s) + 1)

UpperChars == {Chr(n) : n \in 65..90}
LowerChars == {Chr(n) : n \in 97..122}
DigitChars == {Chr(n) : n \in 48..57}

\* Python's \s and the default set of str.strip()
WS == {Chr(n) : n \in WSCodes}

\* The characters that end a line for str.splitlines()
LineBreaks == {Chr(n) : n \in LineBreakCodes}

NonPrintable == {Chr(n) : n \in NonPrintableCodes}

\* ord(c) of a non-printable character
NonPrintableCode(c) == CHOOSE n \in NonPrintableCodes : Chr(n) = c

\* [character |-> its str.lower()], for the characters lower() changes;
\* U+0130 is the one whose lower case is two characters.
LowerPairs ==
  UNION {{<<Chr(c), <<Chr(c + r[4])>>>> : c \in {x \in r[1]..r[2] : (x - r[1]) % r[3] = 0}}
           : r \in Range(LowerRuns)}
    \cup {<<Chr(304), <<"i", Chr(775)>>>>}
LowerDomain == {q[1] : q \in LowerPairs}
LowerMap == [c \in LowerDomain |-> (CHOOSE q \in LowerPairs : q[1] = c)[2]]

\* str.lower() on one character: the characters it lowers to
ToLower(c) == IF c \in LowerDomain THEN LowerMap[c] ELSE <<c>>

RECURSIVE LowerStr(_)
\* str.lower(); no character of Chars lowers depending on its neighbours
LowerStr(s) == IF s = <<>> THEN <<>> ELSE ToLower(Head(s)) \o LowerStr(Tail(s))

\* Path.read_text(): universal newlines turn "\r\n" and "\r" into "\n";
\* Path.write_text() writes "\n" unchanged. The "\r" of a "\r\n" pair is
\* dropped and every other "\r" becomes "\n".
ReadText(t) ==
  IF \A i \in 1..Len(t) : t[i] # "\r" THEN t
  ELSE LET kept == SelectSeq([i \in 1..Len(t) |-> <<i, t[i]>>],
                             LAMBDA x : ~(x[2] = "\r" /\ x[1] < Len(t) /\ t[x[1] + 1] = "\n"))
       IN [k \in 1..Len(kept) |-> IF kept[k][2] = "\r" THEN "\n" ELSE kept[k][2]]

\* str.strip(chars)
StripChars(s, S) ==
  LET keep == {k \in 1..Len(s) : s[k] \notin S}
  IN IF keep = {} THEN <<>>
     ELSE SubSeq(s, Min(keep), CHOOSE x \in keep : \A y \in keep : x >= y)

\* str.strip()
Strip(s) == StripChars(s, WS)

RECURSIVE JoinWith(_, _)
\* sep.join(parts)
JoinWith(parts, sep) ==
  IF parts = <<>> THEN <<>>
  ELSE IF Len(parts) = 1 THEN Head(parts)
  ELSE Head(parts) \o sep \o JoinWith(Tail(parts), sep)

RECURSIVE SplitLinesFrom(_, _)
SplitLinesFrom(s, cur) ==
  IF s = <<>> THEN (IF cur = <<>> THEN <<>> ELSE <<cur>>)
  ELSE IF Head(s) = "\r" /\ Len(s) >= 2 /\ s[2] = "\n"
       THEN <<cur>> \o SplitLinesFrom(Tail(Tail(s)), <<>>)
  ELSE IF Head(s) \in LineBreaks THEN <<cur>> \o SplitLinesFrom(Tail(s), <<>>)
  ELSE SplitLinesFrom(Tail(s), Append(cur, Head(s)))

\* str.splitlines()
SplitLines(s) == SplitLinesFrom(s, <<>>)

\* Literal occurrence of lit in t starting at index i.
Match(t, i, lit) ==
  /\ i >= 1
  /\ i + Len(lit) - 1 <= Len(t)
  /\ \A k \in 1..Len(lit) : t[i + k - 1] = lit[k]

RECURSIVE SkipWS(_, _)
\* First index >= k that is not a \s character (Len(t)+1 if none):
\* the end of a greedy \s* / \s+ run.
SkipWS(t, k) == IF k <= Len(t) /\ t[k] \in WS THEN SkipWS(t, k + 1) ELSE k

\* The MULTILINE anchor ^ at index i.
LineStart(t, i) == i = 1 \/ t[i - 1] = "\n"

\* repr() of a str value.
ReprStr(s) ==
  LET q == IF "'" \in Range(s) /\ "\"" \notin Range(s) THEN "\"" ELSE "'"
      esc(c) == IF c = "\\" THEN <<"\\", "\\">>
                ELSE IF c = q THEN <<"\\", q>>
                ELSE IF c = "\t" THEN <<"\\", "t">>
                ELSE IF c = "\n" THEN <<"\\", "n">>
                ELSE IF c = "\r" THEN <<"\\", "r">>
                ELSE IF c \in NonPrintable
                THEN LET n == NonPrintableCode(c)
                     IN IF n < 256 THEN <<"\\", "x">> \o HexDigits(n, 2)
                        ELSE <<"\\", "u">> \o HexDigits(n, 4)
                ELSE <<c>>
      RECURSIVE body(_)
      body(r) == IF r = <<>> THEN <<>> ELSE esc(Head(r)) \o body(Tail(r))
  IN <<q>> \o body(s) \o <<q>>

\* ---------------------------------------------------------------------
\* _VALID_IDENT, _ensure_ident, _slugify
\* ---------------------------------------------------------------------
IdentCore(s) ==
  /\ Len(s) >= 1
  /\ s[1] \in UpperChars \cup LowerChars \cup {"_"}
  /\ \A k \in 2..Len(s) : s[k] \in UpperChars \cup LowerChars \cup DigitChars \cup {"_"}

\* _VALID_IDENT.match(s): '$' also matches just before a final newline.
ValidIdent(s) ==
  \/ IdentCore(s)
  \/ Len(s) >= 2 /\ s[Len(s)] = "\n" /\ IdentCore(SubSeq(s, 1, Len(s) - 1))

SlugChars == LowerChars \cup DigitChars \cup {"_"}

RECURSIVE CollapseRuns(_, _)
\* re.sub(r"[^a-z0-9_]+", "-", s)
CollapseRuns(s, inRun) ==
  IF s = <<>> THEN <<>>
  ELSE IF Head(s) \in SlugChars THEN <<Head(s)>> \o CollapseRuns(Tail(s), FALSE)
  ELSE IF inRun THEN CollapseRuns(Tail(s), TRUE)
  ELSE <<"-">> \o CollapseRuns(Tail(s), TRUE)

RECURSIVE ReplaceDoubleHyphen(_)
\* s.replace("--", "-")
ReplaceDoubleHyphen(s) ==
  IF s = <<>> THEN <<>>
  ELSE IF Len(s) >= 2 /\ s[1] = "-" /\ s[2] = "-"
       THEN <<"-">> \o ReplaceDoubleHyphen(SubSeq(s, 3, Len(s)))
  ELSE <<Head(s)>> \o ReplaceDoubleHyphen(Tail(s))

\* _slugify(name)
Slugify(name) ==
  ReplaceDoubleHyphen(StripChars(CollapseRuns(LowerStr(Strip(name)), FALSE), {"-"}))

\* slug = _slugify(agent_name).replace("-", "_")
AgentSlug(name) ==
  LET s == Slugify(name) IN [i \in 1..Len(s) |-> IF s[i] = "-" THEN "_" ELSE s[i]]

\* ---------------------------------------------------------------------
\* Tool specs (dicts of the source) and their rendering.
\* A missing key is a FALSE has* flag.
\* ---------------------------------------------------------------------
\* p.get("type", "Any")
ParamType(p) == IF p.hasType THEN p.type ELSE AnyType

\* _render_param_sig raises (KeyError / ValueError) unless every param
\* has a name that passes _ensure_ident.
ParamSigOK(params) ==
  \A i \in 1..Len(params) : params[i].hasName /\ ValidIdent(params[i].name)

\* The exception of the first failing param in list order: p["name"]
\* raises KeyError when the key is missing, _ensure_ident ValueError when
\* the name is not an identifier (line 49).
ParamSigError(params) ==
  LET first == Min({i \in 1..Len(params) : ~(params[i].hasName /\ ValidIdent(params[i].name))})
  IN IF params[first].hasName THEN "ValueError" ELSE "KeyError"

ParamSigItem(p) ==
  p.name \o ColonSp \o ParamType(p)
    \o (IF p.hasDefault THEN EqSp \o ReprStr(p.default) ELSE <<>>)

\* _render_param_sig(params)
RenderParamSig(params) ==
  JoinWith([i \in 1..Len(params) |-> ParamSigItem(params[i])]
             \o <<ToolContextParam, ToolConfigParam>>, CommaSp)

\* spec.get("returns", {"type": "Any", "description": ""})
Returns(s) ==
  IF s.hasReturns THEN s.returns
  ELSE [hasType |-> TRUE, type |-> AnyType, hasDesc |-> TRUE, desc |-> <<>>]

\* returns.get('type', 'Any')
ReturnType(r) == IF r.hasType THEN r.type ELSE AnyType

\* spec.get("description", "No description provided.")
Description(s) == IF s.hasDesc THEN s.desc ELSE NoDescription

\* _render_docstring(desc, params, returns)
RenderDocstring(desc, params, r) ==
  LET argLines ==
        IF params = <<>> THEN <<>>
        ELSE <<<<>>, ArgsHdr>>
             \o [i \in 1..Len(params) |->
                   TwoSp \o params[i].name \o SpParen \o ParamType(params[i])
                     \o ParenColonSp
                     \o (IF params[i].hasDesc THEN params[i].desc ELSE <<>>)]
      \* "if returns:" -- a non-empty dict
      retLines ==
        IF ~(r.hasType \/ r.hasDesc) THEN <<>>
        ELSE <<<<>>, ReturnsHdr,
               TwoSp \o ReturnType(r) \o ColonSp
                 \o (IF r.hasDesc THEN r.desc ELSE <<>>)>>
  IN JoinWith(<<TripleQuote, Strip(desc)>> \o argLines \o retLines \o <<TripleQuote>>,
              DocSep)

\* _default_body(return_type); return_type is returns.get("type")
DefaultBody(r) ==
  IF r.hasType /\ r.type # <<>> /\ LowerStr(r.type) \in {DictWord, MappingWord}
  THEN DictBody
  ELSE StrBody

\* Variant of BodyLines that indents blank lines too.
BodyLinesIndentAll(s) ==
  IF s.body # <<>>
  THEN LET ls == SplitLines(s.body)
       IN [i \in 1..Len(ls) |-> Indent \o ls[i]]
          \o (IF s.body[Len(s.body)] # "\n" THEN <<<<>>>> ELSE <<>>)
  ELSE <<DefaultBody(Returns(s))>>

BodyLines(s) ==
  IF s.body # <<>>
  THEN LET ls == SplitLines(s.body)
       IN [i \in 1..Len(ls) |-> IF Strip(ls[i]) # <<>> THEN Indent \o ls[i] ELSE ls[i]]
          \o (IF s.body[Len(s.body)] # "\n" THEN <<<<>>>> ELSE <<>>)
  ELSE <<DefaultBody(Returns(s))>>

\* _render_function_block(spec) raises exactly when the signature does
\* (the function name is validated by the caller before rendering).
RenderOK(s) == ParamSigOK(s.params)

\* _render_function_block(spec)
RenderFunctionBlock(s) ==
  LET r == Returns(s)
  IN JoinWith(<<AsyncDef \o s.fn \o <<"(">> \o RenderParamSig(s.params) \o Arrow
                  \o ReturnType(r) \o Colon,
                Indent \o RenderDocstring(Description(s), s.params, r),
                LogPre \o s.fn \o LogPost>>
              \o BodyLines(s),
              Newline)
     \o <<"\n", "\n">>

\* _render_header(module_title)
RenderHeader(title) == HeaderPre \o title \o HeaderPost

\* ---------------------------------------------------------------------
\* The regular expressions over the module text.
\* ---------------------------------------------------------------------
\* ^async\s+def  (MULTILINE) at index i
AsyncDefAt(t, i) ==
  /\ LineStart(t, i)
  /\ Match(t, i, AsyncWord)
  /\ LET j == SkipWS(t, i + 5) IN j > i + 5 /\ Match(t, j, DefWord)

\* ^async\s+def\s+<fname>\s*\(  at index i: the index of "(" or 0.
DefParenAt(t, i, f) ==
  IF ~AsyncDefAt(t, i) THEN 0
  ELSE LET j == SkipWS(t, i + 5)
           k == SkipWS(t, j + 3)
           l == SkipWS(t, k + Len(f))
       IN IF k > j + 3 /\ Match(t, k, f) /\ l <= Len(t) /\ t[l] = "(" THEN l ELSE 0

\* _function_exists(file_text, fname)
FunctionExists(t, f) ==
  \E i \in 1..Len(t) : t[i] = "a" /\ DefParenAt(t, i, f) > 0

\* Number of top-level "async def <fname>(" lines in t.
DefCount(t, f) ==
  Cardinality({i \in 1..Len(t) : t[i] = "a" /\ DefParenAt(t, i, f) > 0})

\* Number of top-level "async def" lines in t.
AllDefCount(t) ==
  Cardinality({i \in 1..Len(t) : t[i] = "a" /\ AsyncDefAt(t, i)})

\* ^async\s+def\s+<fname>\s*\([^\)]*\)\s*->[\s\S]*?\n(?=^async\s+def|\Z)
\* matched at index i: the index of the final "\n", or 0.
ExciseEnd(t, i, f) ==
  LET l == DefParenAt(t, i, f)
      closes == {k \in (l + 1)..Len(t) : t[k] = ")"}
      m == Min(closes)
      n == SkipWS(t, m + 1)
      ends == {e \in (n + 2)..Len(t) : t[e] = "\n" /\ (e = Len(t) \/ AsyncDefAt(t, e + 1))}
  IN IF l = 0 THEN 0
     ELSE IF closes = {} THEN 0
     ELSE IF ~Match(t, n, ArrowTail) THEN 0
     ELSE IF ends = {} THEN 0
     ELSE Min(ends)

RECURSIVE SubFrom(_, _, _)
SubFrom(t, f, pos) ==
  LET S == {i \in pos..Len(t) : t[i] = "a" /\ ExciseEnd(t, i, f) > 0}
  IN IF S = {} THEN SubSeq(t, pos, Len(t))
     ELSE LET i == Min(S)
          IN SubSeq(t, pos, i - 1) \o SubFrom(t, f, ExciseEnd(t, i, f) + 1)

\* re.sub(<pattern above>, "", text, flags=re.MULTILINE)
RemoveFunctionBlock(t, f) == SubFrom(t, f, 1)

\* "<name> (invalid: <exception>)" recorded for a spec whose
\* function_name is missing (KeyError) or fails _ensure_ident (ValueError).
InvalidSkipEntry(s) ==
  IF s.hasFn
  THEN s.fn \o InvalidPre \o InvalidFunctionMsg \o s.fn \o Quote \o <<")">>
  ELSE MissingName \o InvalidPre \o KeyErrorFunctionName \o <<")">>

\* ---------------------------------------------------------------------
\* Inputs
\* ---------------------------------------------------------------------
MaxTools == 2
MaxDefs == 2

NoParam == [hasName |-> FALSE, name |-> <<>>, hasType |-> FALSE, type |-> <<>>,
            hasDefault |-> FALSE, default |-> <<>>, hasDesc |-> FALSE, desc |-> <<>>]
NoSpec == [hasFn |-> FALSE, fn |-> <<>>, hasDesc |-> FALSE, desc |-> <<>>,
           params |-> <<>>, hasReturns |-> FALSE,
           returns |-> [hasType |-> FALSE, type |-> <<>>, hasDesc |-> FALSE, desc |-> <<>>],
           body |-> <<>>]

NamePing == <<"p", "i", "n", "g">>
NameG == <<"g">>
DataBot == <<"D", "a", "t", "a", " ", "B", "o", "t">>
BangBang == <<"!", "!">>

\* {"function_name": "ping", "params": [], "returns": {"type": "dict"}}
SpecPing ==
  [NoSpec EXCEPT !.hasFn = TRUE, !.fn = NamePing, !.hasReturns = TRUE,
                 !.returns = [hasType |-> TRUE, type |-> DictWord, hasDesc |-> FALSE, desc |-> <<>>]]
\* {"function_name": "ping", "description": "H\ri",
\*  "params": [{"name": "a", "default": "x)"}], "returns": {"type": "str"}}
SpecPingParen ==
  [NoSpec EXCEPT !.hasFn = TRUE, !.fn = NamePing, !.hasDesc = TRUE, !.desc = <<"H", "\r", "i">>,
                 !.params = <<[NoParam EXCEPT !.hasName = TRUE, !.name = <<"a">>,
                                              !.hasDefault = TRUE, !.default = <<"x", ")">>]>>,
                 !.hasReturns = TRUE,
                 !.returns = [hasType |-> TRUE, type |-> <<"s", "t", "r">>, hasDesc |-> FALSE, desc |-> <<>>]]
\* {"function_name": "1x"}
SpecInvalid == [NoSpec EXCEPT !.hasFn = TRUE, !.fn = <<"1", "x">>]
\* {"function_name": "g", "params": [{"name": "1a"}]}
SpecBadParam ==
  [NoSpec EXCEPT !.hasFn = TRUE, !.fn = NameG,
                 !.params = <<[NoParam EXCEPT !.hasName = TRUE, !.name = <<"1", "a">>]>>]
\* {"function_name": "g", "params": [{"type": "int"}]}
SpecNoNameParam ==
  [NoSpec EXCEPT !.hasFn = TRUE, !.fn = NameG,
                 !.params = <<[NoParam EXCEPT !.hasType = TRUE, !.type = <<"i", "n", "t">>]>>]
\* {"function_name": "g", "description": "Helper.\nasync def ping() -> None:"}
SpecGTrick ==
  [NoSpec EXCEPT !.hasFn = TRUE, !.fn = NameG, !.hasDesc = TRUE,
                 !.desc = <<"H", "e", "l", "p", "e", "r", ".", "\n", "a", "s", "y", "n", "c", " ",
                            "d", "e", "f", " ", "p", "i", "n", "g", "(", ")", " ", "-", ">", " ",
                            "N", "o", "n", "e", ":">>]
\* {"function_name": "g", "description": "\u2013" * 50}
SpecGDash ==
  [NoSpec EXCEPT !.hasFn = TRUE, !.fn = NameG, !.hasDesc = TRUE,
                 !.desc = [i \in 1..50 |-> "U+2013"]]
\* {"function_name": "g", "returns": {"type": "str"}}
SpecG ==
  [NoSpec EXCEPT !.hasFn = TRUE, !.fn = NameG, !.hasReturns = TRUE,
                 !.returns = [hasType |-> TRUE, type |-> <<"s", "t", "r">>, hasDesc |-> FALSE, desc |-> <<>>]]

ToolSpecs == {SpecPing, SpecPingParen, SpecInvalid, SpecBadParam}
ToolLists == UNION {[1..n -> ToolSpecs] : n \in 0..MaxTools}
MaxMix == 3
\* Valid names (ping or g) at odd positions, the invalid "1x" between them.
MixLists == {l \in [1..MaxMix -> {SpecPing, SpecInvalid, SpecG}] :
               \A i \in 1..MaxMix : (l[i] = SpecInvalid) <=> (i % 2 = 0)}
\* tool_context: None ("none"), an object without artifact_service
\* ("noService"), or one whose artifact_service.create_file_artifact
\* raises, returns None, returns an object without an id, or returns an
\* object with an id. None of them sets app_base_path or
\* component_base_path, so every call resolves the same base directory.
Contexts == {"none", "noService", "raises", "returnsNone", "noId", "withId"}
ArtifactId == "art-1"

\* (agent_name, tools, tool_context): every spec list for "Data Bot"; the empty and the
\* punctuation-only agent_name fail before the loop whatever the list.
\* Every context is tried with the single-spec list; a param without a
\* name is tried alone and after ping; batches of MaxMix specs mix the
\* two valid names ping and g with the invalid "1x".
CallInputs ==
  ({DataBot} \X ToolLists \X {"none"})
    \cup ({DataBot} \X MixLists \X {"none"})
    \cup ({DataBot} \X {<<SpecNoNameParam>>, <<SpecPing, SpecNoNameParam>>} \X {"none"})
    \cup ({DataBot} \X {<<SpecPing>>} \X Contexts)
    \cup ({<<>>, BangBang} \X {<<SpecPing>>} \X {"none"})
Procs == {1, 2}


\* ---------------------------------------------------------------------
\* State
\* ---------------------------------------------------------------------
VARIABLES
  dirExists,   \* src_dir exists
  initFile,    \* __init__.py: [exists, text]
  pyFile,      \* tools.py:    [exists, text]
  pc,          \* position of each invocation: "idle", "loop", "writing", "done"
  args,        \* arguments of the current / last invocation
  again,       \* the invocation repeats the previous one's arguments
  text,        \* local variable text
  idx,         \* index of the spec being processed (for spec in tools)
  created,     \* local list created
  skipped,     \* local list skipped
  status,      \* returned status, or the exception raised
  readFile,    \* tools.py as it was when the invocation started
  started,     \* the process has invoked define_dynamic_tools
  clobberers,  \* processes mid-loop or mid-write when this process wrote tools.py
  artifactIds, \* local list artifact_ids
  yaml,        \* local yaml_tools_block
  probe,       \* argument of a pure helper under evaluation
  probeOut     \* its result once evaluated

progVars == <<dirExists, initFile, pyFile, pc, args, again, text, idx, created, skipped,
              status, readFile, started, clobberers, artifactIds, yaml>>
vars == <<dirExists, initFile, pyFile, pc, args, again, text, idx, created, skipped,
          status, readFile, started, clobberers, artifactIds, yaml, probe, probeOut>>

NoArgs == [agent |-> <<>>, tools |-> <<>>, overwrite |-> FALSE, ctx |-> "none"]
NoFile == [exists |-> FALSE, text |-> <<>>]
NoProbe == [kind |-> "none", in |-> <<>>]
NoOut == [done |-> FALSE, val |-> <<>>]

\* A fresh base directory and no invocation yet.
BaseInit ==
  /\ dirExists = FALSE
  /\ initFile = NoFile
  /\ pyFile = NoFile
  /\ pc = [p \in Procs |-> "idle"]
  /\ args = [p \in Procs |-> NoArgs]
  /\ again = [p \in Procs |-> FALSE]
  /\ text = [p \in Procs |-> <<>>]
  /\ idx = [p \in Procs |-> 1]
  /\ created = [p \in Procs |-> <<>>]
  /\ skipped = [p \in Procs |-> <<>>]
  /\ status = [p \in Procs |-> "none"]
  /\ readFile = [p \in Procs |-> NoFile]
  /\ started = [p \in Procs |-> FALSE]
  /\ clobberers = [p \in Procs |-> {}]
  /\ artifactIds = [p \in Procs |-> <<>>]
  /\ yaml = [p \in Procs |-> <<>>]

Init ==
  /\ BaseInit
  /\ probe = NoProbe
  /\ probeOut = NoOut

\* Variant of RejectCall that creates the directory and the package
\* marker before checking the arguments.
RejectCallAfterMkdir(p) ==
  /\ status' = [status EXCEPT ![p] = "error"]
  /\ pc' = [pc EXCEPT ![p] = "done"]
  /\ text' = [text EXCEPT ![p] = <<>>]
  /\ dirExists' = TRUE
  /\ initFile' = IF initFile.exists THEN initFile ELSE [exists |-> TRUE, text |-> <<>>]
  /\ UNCHANGED pyFile

\* Lines 173-176: a missing agent_name or tools returns an error record.
RejectCall(p) ==
  /\ status' = [status EXCEPT ![p] = "error"]
  /\ pc' = [pc EXCEPT ![p] = "done"]
  /\ text' = [text EXCEPT ![p] = <<>>]
  /\ UNCHANGED <<dirExists, initFile, pyFile>>

\* Line 179: slug[0] raises IndexError on an empty slug.
SlugRaises(p) ==
  /\ status' = [status EXCEPT ![p] = "IndexError"]
  /\ pc' = [pc EXCEPT ![p] = "done"]
  /\ text' = [text EXCEPT ![p] = <<>>]
  /\ UNCHANGED <<dirExists, initFile, pyFile>>

\* Variant of EnsureInitFile that always writes an empty __init__.py.
EnsureInitFileTruncate(f) == [exists |-> TRUE, text |-> <<>>]

\* Line 188: "if not init_file.exists(): init_file.write_text('')"
EnsureInitFile(f) == IF f.exists THEN f ELSE [exists |-> TRUE, text |-> <<>>]

\* Variant of LoadModule that writes the header to a new module file
\* before the loop.
LoadModuleEagerHeader(p, a, cur) ==
  /\ dirExists' = TRUE
  /\ initFile' = EnsureInitFile(initFile)
  /\ text' = [text EXCEPT ![p] = IF pyFile.exists THEN cur ELSE RenderHeader(a)]
  /\ status' = [status EXCEPT ![p] = "running"]
  /\ pc' = [pc EXCEPT ![p] = "loop"]
  /\ pyFile' = IF pyFile.exists THEN pyFile ELSE [exists |-> TRUE, text |-> RenderHeader(a)]

\* Lines 187-194: create the directory and the package marker if absent,
\* load the module text or start from the header; cur is what
\* py_file.read_text() returns.
LoadModule(p, a, cur) ==
  /\ dirExists' = TRUE
  /\ initFile' = EnsureInitFile(initFile)
  /\ text' = [text EXCEPT ![p] = IF pyFile.exists THEN cur ELSE RenderHeader(a)]
  /\ status' = [status EXCEPT ![p] = "running"]
  /\ pc' = [pc EXCEPT ![p] = "loop"]
  /\ UNCHANGED pyFile

\* define_dynamic_tools, lines 173-196: argument checks, slug, directory,
\* package marker, loading the module text.
StartCall(p, a, ts, ow, c, rep, cur) ==
  /\ args' = [args EXCEPT ![p] = [agent |-> a, tools |-> ts, overwrite |-> ow, ctx |-> c]]
  /\ artifactIds' = [artifactIds EXCEPT ![p] = <<>>]
  /\ yaml' = [yaml EXCEPT ![p] = <<>>]
  /\ again' = [again EXCEPT ![p] = rep]
  /\ readFile' = [readFile EXCEPT ![p] = pyFile]
  /\ started' = [started EXCEPT ![p] = TRUE]
  /\ idx' = [idx EXCEPT ![p] = 1]
  /\ created' = [created EXCEPT ![p] = <<>>]
  /\ skipped' = [skipped EXCEPT ![p] = <<>>]
  /\ clobberers' = [clobberers EXCEPT ![p] = {}]
  /\ IF a = <<>> \/ ts = <<>> THEN RejectCall(p)
     ELSE IF AgentSlug(a) = <<>> THEN SlugRaises(p)
     ELSE LoadModule(p, a, cur)

\* A new invocation with arguments drawn from the input sets.
Call(p) ==
  /\ pc[p] \in {"idle", "done"}
  /\ AllDefCount(pyFile.text) < MaxDefs
  /\ LET cur == ReadText(pyFile.text)
     IN \E in \in CallInputs, ow \in BOOLEAN : StartCall(p, in[1], in[2], ow, in[3], FALSE, cur)

\* The same invocation again, right after the previous one returned.
Again(p) ==
  /\ pc[p] = "done"
  /\ AllDefCount(pyFile.text) < MaxDefs
  /\ StartCall(p, args[p].agent, args[p].tools, args[p].overwrite, args[p].ctx, TRUE,
               ReadText(pyFile.text))

\* Variant of SpecValid that only rejects a missing or empty name.
SpecValidNonEmpty(s) == s.hasFn /\ s.fn # <<>>

\* _ensure_ident(spec["function_name"], "function") succeeds (line 199).
SpecValid(s) == s.hasFn /\ ValidIdent(s.fn)

\* Variant of NewText that assigns the block instead of appending it.
NewTextAssign(t, s) == RenderFunctionBlock(s)

\* Lines 209-218: remove the old block when overwriting, append the new one.
NewText(t, s) ==
  (IF FunctionExists(t, s.fn) THEN RemoveFunctionBlock(t, s.fn) ELSE t)
    \o RenderFunctionBlock(s)

\* One iteration of "for spec in tools" (lines 197-219).
LoopStep(p) ==
  /\ pc[p] = "loop"
  /\ idx[p] <= Len(args[p].tools)
  /\ LET s == args[p].tools[idx[p]]
         t == text[p]
         ow == args[p].overwrite
     IN IF ~SpecValid(s)
        THEN /\ skipped' = [skipped EXCEPT ![p] = Append(@, InvalidSkipEntry(s))]
             /\ idx' = [idx EXCEPT ![p] = @ + 1]
             /\ UNCHANGED <<text, created, pc, status>>
        ELSE IF FunctionExists(t, s.fn) /\ ~ow
        THEN /\ skipped' = [skipped EXCEPT ![p] = Append(@, s.fn)]
             /\ idx' = [idx EXCEPT ![p] = @ + 1]
             /\ UNCHANGED <<text, created, pc, status>>
        ELSE IF ~RenderOK(s)
        THEN \* _render_param_sig raises; the exception leaves the function
             /\ status' = [status EXCEPT ![p] = ParamSigError(s.params)]
             /\ pc' = [pc EXCEPT ![p] = "done"]
             /\ UNCHANGED <<text, created, skipped, idx>>
        ELSE /\ text' = [text EXCEPT ![p] = NewText(t, s)]
             /\ created' = [created EXCEPT ![p] = Append(@, s.fn)]
             /\ idx' = [idx EXCEPT ![p] = @ + 1]
             /\ UNCHANGED <<skipped, pc, status>>
  /\ UNCHANGED <<dirExists, initFile, pyFile, args, again, readFile, started, clobberers,
                 artifactIds, yaml>>

\* module_path = f"src.{slug}.tools" (line 185)
ModulePath(a) == SrcPrefix \o AgentSlug(a) \o ToolsSuffix

\* Variant of RenderYamlToolBlock without the "<name> tool." fallback.
RenderYamlToolBlockNoFallback(mp, fn, d) ==
  YamlToolType \o YamlModulePre \o mp \o YamlQuoteNl \o YamlBasePath
    \o YamlFnPre \o fn \o YamlQuoteNl \o YamlDescPre \o d \o YamlQuoteNl

\* _render_yaml_tool_block(module_path, fn_name, description)
RenderYamlToolBlock(mp, fn, d) ==
  LET desc == IF d # <<>> THEN d ELSE fn \o ToolSuffix
  IN YamlToolType \o YamlModulePre \o mp \o YamlQuoteNl \o YamlBasePath
       \o YamlFnPre \o fn \o YamlQuoteNl \o YamlDescPre \o desc \o YamlQuoteNl

\* spec.get("description", "")
SpecDescription(s) == IF s.hasDesc THEN s.desc ELSE <<>>

\* Line 242: "if not fn or not _VALID_IDENT.match(fn): continue"
YamlNamed(s) == s.hasFn /\ s.fn # <<>> /\ ValidIdent(s.fn)

RECURSIVE YamlBlocks(_, _)
\* Lines 240-245: one block per spec with a valid name, in input order.
YamlBlocks(mp, ts) ==
  IF ts = <<>> THEN <<>>
  ELSE (IF YamlNamed(Head(ts))
        THEN <<RenderYamlToolBlock(mp, Head(ts).fn, SpecDescription(Head(ts)))>>
        ELSE <<>>) \o YamlBlocks(mp, Tail(ts))

\* Line 246: "\n".join(yaml_blocks)
YamlToolsBlock(mp, ts) == JoinWith(YamlBlocks(mp, ts), Newline)

\* Variant of RegisterArtifact without the except clause: an exception
\* from create_file_artifact leaves define_dynamic_tools.
RegisterArtifactUncaught(c) ==
  [ids |-> IF c = "withId" THEN <<ArtifactId>> ELSE <<>>,
   raised |-> c = "raises"]

\* Lines 225-237: artifact registration. The ids it yields and whether an
\* exception leaves the try block (the except clause catches Exception).
RegisterArtifact(c) ==
  [ids |-> IF c = "withId" THEN <<ArtifactId>> ELSE <<>>,
   raised |-> FALSE]

\* Lines 221-256: write the module once, register artifacts, build the
\* YAML block, return.
\* Lines 222-256 once the whole text is on disk: write_text's content,
\* artifact registration, the YAML block and the return.
WriteDone(p, new) ==
  /\ pyFile' = [exists |-> TRUE, text |-> new]
  /\ pc' = [pc EXCEPT ![p] = "done"]
  /\ LET r == RegisterArtifact(args[p].ctx)
     IN /\ artifactIds' = [artifactIds EXCEPT ![p] = r.ids]
        /\ status' = [status EXCEPT ![p] = IF r.raised THEN "Exception" ELSE "success"]
  /\ yaml' = [yaml EXCEPT ![p] = YamlToolsBlock(ModulePath(args[p].agent), args[p].tools)]
  /\ clobberers' = [clobberers EXCEPT ![p] = {q \in Procs \ {p} : pc[q] \in {"loop", "writing"}}]
  /\ UNCHANGED <<dirExists, initFile, args, again, text, idx, created, skipped, readFile, started>>

\* Lines 221-256 in one step: with one invocation nothing reads tools.py
\* between write_text's truncation and its write.
WriteStep(p) ==
  /\ pc[p] = "loop"
  /\ idx[p] > Len(args[p].tools)
  /\ WriteDone(p, text[p])

\* Line 222, first half: write_text opens tools.py with mode "w", which
\* empties it; another thread can read it in that state. The text (a few
\* hundred bytes, under the 8 KiB buffer) then goes out in one write at
\* offset 0 of this thread's descriptor.
TruncateStep(p) ==
  /\ pc[p] = "loop"
  /\ idx[p] > Len(args[p].tools)
  /\ pyFile' = [exists |-> TRUE, text |-> <<>>]
  /\ pc' = [pc EXCEPT ![p] = "writing"]
  /\ UNCHANGED <<dirExists, initFile, args, again, text, idx, created, skipped, status,
                 readFile, started, clobberers, artifactIds, yaml>>

\* Line 222, second half, and the rest of the invocation. The write
\* overwrites the first Len(text[p]) characters of whatever is on disk; a
\* longer text another thread wrote after this thread's truncation keeps
\* its tail. Offsets count UTF-8 bytes, so the cut can fall inside a
\* character.
\* The file's bytes after the first k, as characters; when byte k+1 is in
\* the middle of a character, its remaining continuation bytes come first
\* as stray bytes.
ByteTail(file, k) ==
  IF \A i \in 1..Len(file) : ByteLen(file[i]) = 1
  THEN SubSeq(file, k + 1, Len(file))
  ELSE LET j == CHOOSE j \in 1..Len(file) :
                  BytesBefore(file, j) <= k /\ k < BytesBefore(file, j) + ByteLen(file[j])
           off == k - BytesBefore(file, j)
           cb == ContBytes(file[j])
       IN (IF off = 0 THEN <<file[j]>>
           ELSE [i \in 1..(ByteLen(file[j]) - off) |-> StrayByte(cb[off - 1 + i])])
          \o SubSeq(file, j + 1, Len(file))
OverwriteAt0(file, t) ==
  t \o (IF ByteCount(file) > ByteCount(t) THEN ByteTail(file, ByteCount(t)) ELSE <<>>)
FlushStep(p) ==
  /\ pc[p] = "writing"
  /\ WriteDone(p, OverwriteAt0(pyFile.text, text[p]))

\* Invocations one after the other.
SeqProcs == {1}
Next ==
  /\ \E p \in SeqProcs : Call(p) \/ Again(p) \/ LoopStep(p) \/ WriteStep(p)
  /\ UNCHANGED <<probe, probeOut>>

Spec == Init /\ [][Next]_vars

\* Two threads, one invocation each, on the same agent and base directory.
RaceTools == {<<s>> : s \in ToolSpecs \cup {SpecG, SpecGDash}}
RaceCall(p) ==
  /\ ~started[p]
  /\ LET cur == ReadText(pyFile.text)
     IN \E ts \in RaceTools, ow \in BOOLEAN : StartCall(p, DataBot, ts, ow, "none", FALSE, cur)
RaceNext ==
  /\ \E p \in Procs : RaceCall(p) \/ LoopStep(p) \/ TruncateStep(p) \/ FlushStep(p)
  /\ UNCHANGED <<probe, probeOut>>

RaceSpec == Init /\ [][RaceNext]_vars

\* A module file someone else started (with Windows line ends), a package
\* marker with content, and one with a function already defined.
OwnHeader == <<"#", " ", "m", "i", "n", "e", "\r", "\n">>
ExistingInitFiles == {[exists |-> TRUE, text |-> <<"x", "\n">>]}
ExistingPyFiles ==
  {NoFile, [exists |-> TRUE, text |-> OwnHeader],
   [exists |-> TRUE, text |-> OwnHeader \o RenderFunctionBlock(SpecG)]}

\* The agent's directory already exists with __init__.py and maybe
\* tools.py in it.
ExistingInit ==
  /\ dirExists = TRUE
  /\ initFile \in ExistingInitFiles
  /\ pyFile \in ExistingPyFiles
  /\ pc = [p \in Procs |-> "idle"]
  /\ args = [p \in Procs |-> NoArgs]
  /\ again = [p \in Procs |-> FALSE]
  /\ text = [p \in Procs |-> <<>>]
  /\ idx = [p \in Procs |-> 1]
  /\ created = [p \in Procs |-> <<>>]
  /\ skipped = [p \in Procs |-> <<>>]
  /\ status = [p \in Procs |-> "none"]
  /\ readFile = [p \in Procs |-> NoFile]
  /\ started = [p \in Procs |-> FALSE]
  /\ clobberers = [p \in Procs |-> {}]
  /\ artifactIds = [p \in Procs |-> <<>>]
  /\ yaml = [p \in Procs |-> <<>>]
  /\ probe = NoProbe
  /\ probeOut = NoOut

ExistingSpec == ExistingInit /\ [][Next]_vars

\* Module files holding a ping block and a g block, in both orders; the
\* ping block with and without a ')' in a default; a g block whose
\* description puts an "async def ping() -> None:" line at column 0.
FramePyFiles ==
  {[exists |-> TRUE, text |-> OwnHeader \o RenderFunctionBlock(SpecPing) \o RenderFunctionBlock(SpecG)],
   [exists |-> TRUE, text |-> OwnHeader \o RenderFunctionBlock(SpecG) \o RenderFunctionBlock(SpecPing)],
   [exists |-> TRUE, text |-> OwnHeader \o RenderFunctionBlock(SpecPingParen) \o RenderFunctionBlock(SpecG)],
   [exists |-> TRUE, text |-> OwnHeader \o RenderFunctionBlock(SpecGTrick)]}

FrameInit ==
  /\ dirExists = TRUE
  /\ initFile \in ExistingInitFiles
  /\ pyFile \in FramePyFiles
  /\ pc = [p \in Procs |-> "idle"]
  /\ args = [p \in Procs |-> NoArgs]
  /\ again = [p \in Procs |-> FALSE]
  /\ text = [p \in Procs |-> <<>>]
  /\ idx = [p \in Procs |-> 1]
  /\ created = [p \in Procs |-> <<>>]
  /\ skipped = [p \in Procs |-> <<>>]
  /\ status = [p \in Procs |-> "none"]
  /\ readFile = [p \in Procs |-> NoFile]
  /\ started = [p \in Procs |-> FALSE]
  /\ clobberers = [p \in Procs |-> {}]
  /\ artifactIds = [p \in Procs |-> <<>>]
  /\ yaml = [p \in Procs |-> <<>>]
  /\ probe = NoProbe
  /\ probeOut = NoOut

\* One invocation on such a file.
FrameCall(p) ==
  /\ pc[p] = "idle"
  /\ LET cur == ReadText(pyFile.text)
     IN \E in \in CallInputs, ow \in BOOLEAN : StartCall(p, in[1], in[2], ow, in[3], FALSE, cur)

FrameNext ==
  /\ \E p \in SeqProcs : FrameCall(p) \/ LoopStep(p) \/ WriteStep(p)
  /\ UNCHANGED <<probe, probeOut>>

FrameSpec == FrameInit /\ [][FrameNext]_vars

\* ---------------------------------------------------------------------
\* Pure helpers of the tool modules, each applied once to an argument
\* drawn from a bounded set.
\* ---------------------------------------------------------------------
MaxNameLen == 3
\* U+212A is the Kelvin sign, whose str.lower() is "k".
NameChars == {"A", "b", "1", "_", " ", "!", "-", "U+212A"}
\* Non-empty agent names over NameChars.
AgentNames == UNION {[1..n -> NameChars] : n \in 1..MaxNameLen}

\* Lines 178-185 of define_dynamic_tools: the slug, the identifier check
\* of line 179 (slug[0] raises IndexError on an empty slug) and the
\* module path.
SlugOutcome(a) ==
  LET slug == AgentSlug(a)
  IN IF slug = <<>>
     THEN [raised |-> "IndexError", slug |-> slug, modulePath |-> <<>>]
     ELSE IF ~ValidIdent(IF slug[1] \in LowerChars \cup UpperChars THEN slug ELSE <<"_">> \o slug)
     THEN [raised |-> "ValueError", slug |-> slug, modulePath |-> <<>>]
     ELSE [raised |-> "none", slug |-> slug, modulePath |-> ModulePath(a)]

ApplySlug ==
  /\ probe.kind = "slug"
  /\ ~probeOut.done
  /\ probeOut' = [done |-> TRUE, val |-> SlugOutcome(probe.in)]
  /\ UNCHANGED <<progVars, probe>>

MaxParams == 3
\* {"name": "a"}, {"name": "b", "type": "int"}, {"name": "c", "default": "x"},
\* {"name": "d", "type": "int", "default": "y"}
ParamA == [NoParam EXCEPT !.hasName = TRUE, !.name = <<"a">>]
ParamB == [NoParam EXCEPT !.hasName = TRUE, !.name = <<"b">>, !.hasType = TRUE, !.type = <<"i", "n", "t">>]
ParamC == [NoParam EXCEPT !.hasName = TRUE, !.name = <<"c">>, !.hasDefault = TRUE, !.default = <<"x">>]
ParamD == [NoParam EXCEPT !.hasName = TRUE, !.name = <<"d">>, !.hasType = TRUE, !.type = <<"i", "n", "t">>,
                          !.hasDefault = TRUE, !.default = <<"y">>]
\* {"type": "int"} (no name), {"name": "1a"}
ParamNoName == [NoParam EXCEPT !.hasType = TRUE, !.type = <<"i", "n", "t">>]
ParamBadName == [NoParam EXCEPT !.hasName = TRUE, !.name = <<"1", "a">>]
ParamLists == UNION {[1..n -> {ParamA, ParamB, ParamC, ParamD, ParamNoName, ParamBadName}] : n \in 0..MaxParams}

\* _render_param_sig(params): the signature, or the KeyError / ValueError
\* of the first param without a valid name.
ParamSigOutcome(ps) ==
  IF ParamSigOK(ps) THEN [raised |-> "none", sig |-> RenderParamSig(ps)]
  ELSE [raised |-> ParamSigError(ps), sig |-> <<>>]

ApplyParamSig ==
  /\ probe.kind = "sig"
  /\ ~probeOut.done
  /\ probeOut' = [done |-> TRUE, val |-> ParamSigOutcome(probe.in)]
  /\ UNCHANGED <<progVars, probe>>

\* returns.get("type") of a spec without a body: absent, or one of
\* "dict", "DICT", "Mapping", "Dict[str, Any]", "str", "".
TypeStrings ==
  {<<"d", "i", "c", "t">>, <<"D", "I", "C", "T">>, <<"M", "a", "p", "p", "i", "n", "g">>,
   <<"D", "i", "c", "t", "[", "s", "t", "r", ",", " ", "A", "n", "y", "]">>,
   <<"s", "t", "r">>, <<>>}
ReturnRecords ==
  {[hasType |-> FALSE, type |-> <<>>, hasDesc |-> FALSE, desc |-> <<>>]}
    \cup {[hasType |-> TRUE, type |-> t, hasDesc |-> FALSE, desc |-> <<>>] : t \in TypeStrings}

\* The default body of _render_function_block for a spec without a body
\* (line 112).
ApplyDefaultBody ==
  /\ probe.kind = "body"
  /\ ~probeOut.done
  /\ probeOut' = [done |-> TRUE,
                  val |-> BodyLines([NoSpec EXCEPT !.hasFn = TRUE, !.fn = NamePing,
                                                   !.hasReturns = TRUE, !.returns = probe.in])]
  /\ UNCHANGED <<progVars, probe>>

\* tool_context: None, or an object whose app_base_path and
\* component_base_path are each absent, None, "" or a directory.
AppValues == {"absent", "None", "", "/app"}
CompValues == {"absent", "None", "", "/comp"}
ToolContexts ==
  {[isNone |-> TRUE, app |-> "absent", comp |-> "absent"]}
    \cup {[isNone |-> FALSE, app |-> a, comp |-> c] : a \in AppValues, c \in CompValues}
\* Path(__file__).resolve().parents[2] for src/src/agent_scaffolder/tools.py
FallbackBase == "<repo>/src"

\* getattr(tool_context, name, None) is truthy.
Truthy(v) == v \notin {"absent", "None", ""}

\* Variant of ResolveBase that prefers component_base_path.
ResolveBaseCompFirst(c) ==
  IF ~c.isNone /\ Truthy(c.comp) THEN c.comp
  ELSE IF ~c.isNone /\ Truthy(c.app) THEN c.app
  ELSE FallbackBase

\* _resolve_base(tool_context), lines 24-40; the directories are absolute,
\* so Path(...).resolve() leaves them as they are.
ResolveBase(c) ==
  IF ~c.isNone
  THEN IF Truthy(c.app) THEN c.app
       ELSE IF Truthy(c.comp) THEN c.comp
       ELSE FallbackBase
  ELSE FallbackBase

ApplyResolveBase ==
  /\ probe.kind = "base"
  /\ ~probeOut.done
  /\ probeOut' = [done |-> TRUE, val |-> ResolveBase(probe.in)]
  /\ UNCHANGED <<progVars, probe>>

\* Python's a / b: ZeroDivisionError when b = 0, else the quotient a/b
\* kept as a numerator and a denominator.
PyDiv(a, b) ==
  IF b = 0 THEN [raised |-> "ZeroDivisionError", num |-> a, den |-> b]
  ELSE [raised |-> "none", num |-> a, den |-> b]

MaxReqs == 2
DetailLevels == {"standard", "detailed", "brief"}
\* create_user_stories(requirements, acceptance_criteria_detail=d) with
\* len(requirements) = n.
StoriesInputs == [n : 0..MaxReqs, detail : DetailLevels]

\* len(generate_acceptance_criteria(requirement, detail_level)), lines 575-591
AcceptanceCriteriaCount(d) == IF d = "detailed" THEN 7 ELSE 3

\* create_user_stories, lines 149-237: one story per requirement; the
\* statistics divide only when there are stories (line 684); the quality
\* metric divides by len(user_stories) unguarded (line 225).
CreateUserStories(in) ==
  LET stories == in.n
      avgCriteria == PyDiv(stories * AcceptanceCriteriaCount(in.detail), stories)
  IN IF avgCriteria.raised # "none"
     THEN [raised |-> avgCriteria.raised, status |-> "none", avgCriteria |-> avgCriteria]
     ELSE [raised |-> "none", status |-> "success", avgCriteria |-> avgCriteria]

MaxTasks == 2
\* track_project_progress(completed_tasks=c, total_tasks=t)
TrackInputs == [completed : 0..MaxTasks, total : -1..MaxTasks]

\* track_project_progress, lines 89-176: completion percentage
\* (completed / max(total, 1)) * 100 (line 117).
TrackProjectProgress(in) ==
  LET pct == PyDiv(in.completed, Max(in.total, 1))
  IN IF pct.raised # "none"
     THEN [raised |-> pct.raised, status |-> "none", pct |-> pct]
     ELSE [raised |-> "none", status |-> "success", pct |-> pct]

ApplyCreateUserStories ==
  /\ probe.kind = "stories"
  /\ ~probeOut.done
  /\ probeOut' = [done |-> TRUE, val |-> CreateUserStories(probe.in)]
  /\ UNCHANGED <<progVars, probe>>

ApplyTrackProjectProgress ==
  /\ probe.kind = "track"
  /\ ~probeOut.done
  /\ probeOut' = [done |-> TRUE, val |-> TrackProjectProgress(probe.in)]
  /\ UNCHANGED <<progVars, probe>>

\* recommend_technology_stack(budget_constraints=b), lines 187-191:
\* {"low": ..., "medium": ..., "high": ...}.get(b), None when absent.
BudgetValues == {"low", "medium", "high", "premium"}
BudgetTable ==
  [low |-> "Focus on open-source solutions and managed services",
   medium |-> "Balance of managed services and custom solutions",
   high |-> "Enterprise-grade tools and custom development"]
BudgetConsiderations(b) ==
  IF b \in DOMAIN BudgetTable THEN [isNone |-> FALSE, value |-> BudgetTable[b]]
  ELSE [isNone |-> TRUE, value |-> ""]

\* generate_stakeholder_requirements(group, ...), lines 314-343:
\* stakeholder_needs.get(group, []).
StakeholderGroups == {"End Users", "Business", "Technical Team", "Operations", "Customers"}
StakeholderRequirements(g) ==
  CASE g = "End Users" ->
         <<"Intuitive and easy-to-use interface", "Fast loading times and responsive design",
           "Reliable functionality with minimal errors", "Help documentation and support options">>
    [] g = "Business" ->
         <<"Cost-effective solution within budget", "Measurable ROI and business value",
           "Compliance with industry regulations", "Integration with existing business processes">>
    [] g = "Technical Team" ->
         <<"Maintainable and well-documented code", "Scalable architecture and design patterns",
           "Comprehensive testing and quality assurance", "Monitoring and logging capabilities">>
    [] g = "Operations" ->
         <<"Reliable deployment and rollback procedures", "Monitoring and alerting systems",
           "Backup and disaster recovery capabilities", "Performance metrics and dashboards">>
    [] OTHER -> <<>>

\* get_next_communication_date(frequency), lines 386-399: the number of
\* days added to today.
Frequencies == {"daily", "weekly", "bi-weekly", "monthly"}
NextCommunicationOffset(f) ==
  CASE f = "daily" -> 1
    [] f = "weekly" -> 7
    [] f = "bi-weekly" -> 14
    [] OTHER -> 7

ApplyBudgetConsiderations ==
  /\ probe.kind = "budget"
  /\ ~probeOut.done
  /\ probeOut' = [done |-> TRUE, val |-> BudgetConsiderations(probe.in)]
  /\ UNCHANGED <<progVars, probe>>

ApplyStakeholderRequirements ==
  /\ probe.kind = "stakeholder"
  /\ ~probeOut.done
  /\ probeOut' = [done |-> TRUE, val |-> StakeholderRequirements(probe.in)]
  /\ UNCHANGED <<progVars, probe>>

ApplyNextCommunicationDate ==
  /\ probe.kind = "frequency"
  /\ ~probeOut.done
  /\ probeOut' = [done |-> TRUE, val |-> NextCommunicationOffset(probe.in)]
  /\ UNCHANGED <<progVars, probe>>

\* create_architecture_diagram(requirements, system_type, scale), lines 26-56
ArchitecturePatterns ==
  [web_application |-> <<"MVC", "Layered Architecture", "Clean Architecture">>,
   microservices |-> <<"Service Mesh", "Event-Driven", "Domain-Driven Design">>,
   data_pipeline |-> <<"Lambda Architecture", "Kappa Architecture", "Batch Processing">>,
   mobile_app |-> <<"MVVM", "Clean Architecture", "Repository Pattern">>]
ScaleRecommendations ==
  [small |-> [infrastructure |-> "Single server or container",
              database |-> "Single database instance",
              caching |-> "In-memory caching"],
   medium |-> [infrastructure |-> "Load-balanced multi-server setup",
               database |-> "Primary-replica database setup",
               caching |-> "Distributed caching layer"],
   large |-> [infrastructure |-> "Auto-scaling cloud infrastructure",
              database |-> "Sharded or distributed database",
              caching |-> "Multi-tier caching strategy"],
   enterprise |-> [infrastructure |-> "Multi-region cloud deployment",
                   database |-> "Globally distributed database",
                   caching |-> "Edge caching with CDN"]]
SystemTypes == {"web_application", "microservices", "data_pipeline", "mobile_app", "serverless"}
Scales == {"small", "medium", "large", "enterprise", "huge"}

\* architecture_patterns.get(system_type, ["Layered Architecture"]) (line 58)
RecommendedPatterns(t) ==
  IF t \in DOMAIN ArchitecturePatterns THEN ArchitecturePatterns[t] ELSE <<"Layered Architecture">>

\* Variant of ScaleConfig that falls back to the "small" entry.
ScaleConfigSmallDefault(sc) ==
  IF sc \in DOMAIN ScaleRecommendations THEN ScaleRecommendations[sc]
  ELSE ScaleRecommendations["small"]

\* scale_recommendations.get(scale, scale_recommendations["medium"]) (line 59)
ScaleConfig(sc) ==
  IF sc \in DOMAIN ScaleRecommendations THEN ScaleRecommendations[sc]
  ELSE ScaleRecommendations["medium"]

\* create_architecture_diagram, lines 6-81: the looked-up parts of the result.
CreateArchitectureDiagram(in) ==
  [status |-> "success",
   recommendedPatterns |-> RecommendedPatterns(in.system),
   infrastructureRecommendations |-> ScaleConfig(in.scale)]

ApplyCreateArchitectureDiagram ==
  /\ probe.kind = "arch"
  /\ ~probeOut.done
  /\ probeOut' = [done |-> TRUE, val |-> CreateArchitectureDiagram(probe.in)]
  /\ UNCHANGED <<progVars, probe>>

\* A requirement string, by the keyword groups of lines 375-388 and
\* 599-606 it contains: "integrate"/"api"/"third-party",
\* "real-time"/"live"/"instant", "security"/"encryption"/"compliance",
\* "workflow"/"approval"/"business rule", "complex"/"advanced"/"multiple",
\* "authentication", "simple"/"basic"/"display".
ReqTerms == {"integrate", "live", "security", "workflow", "complex", "authentication", "simple"}
Requirements == SUBSET ReqTerms

\* Variant of ComplexityScore without the cap at 5.
ComplexityScoreUncapped(r) ==
  1 + (IF "integrate" \in r THEN 2 ELSE 0) + (IF "live" \in r THEN 2 ELSE 0)
    + (IF "security" \in r THEN 1 ELSE 0) + (IF "workflow" \in r THEN 1 ELSE 0)

\* One entry of complexity_scores in assess_requirement_complexity,
\* lines 370-390.
ComplexityScore(r) ==
  Min({1 + (IF "integrate" \in r THEN 2 ELSE 0) + (IF "live" \in r THEN 2 ELSE 0)
         + (IF "security" \in r THEN 1 ELSE 0) + (IF "workflow" \in r THEN 1 ELSE 0), 5})

\* estimate_story_points(requirement), lines 593-609.
EstimateStoryPoints(r) ==
  LET points == 2 + (IF "integrate" \in r THEN 3 ELSE 0)
                  + (IF "complex" \in r THEN 2 ELSE 0)
                  + (IF {"security", "authentication"} \cap r # {} THEN 2 ELSE 0)
                  - (IF "simple" \in r THEN 1 ELSE 0)
  IN Max(Min({points, 13}), 1)

\* assess_feasibility(requirements, constraints, budget, timeline),
\* lines 452-479, with len(requirements), len(constraints) and the
\* score in tenths (0.8 is 8).
FeasibilityInputs ==
  [nReqs : {0, 21}, nConstraints : {0, 6}, budget : {"low", "medium"}, timeline : {4, 8}]
FeasibilityScore(in) ==
  LET base == 8 - (IF in.nReqs > 20 THEN 1 ELSE 0) - (IF in.timeline < 8 THEN 2 ELSE 0)
                - (IF in.budget = "low" THEN 2 ELSE 0) - (IF in.nConstraints > 5 THEN 1 ELSE 0)
  IN Max(base, 1)

ApplyRequirementScores ==
  /\ probe.kind = "req"
  /\ ~probeOut.done
  /\ probeOut' = [done |-> TRUE, val |-> [complexity |-> ComplexityScore(probe.in),
                                          points |-> EstimateStoryPoints(probe.in)]]
  /\ UNCHANGED <<progVars, probe>>

ApplyAssessFeasibility ==
  /\ probe.kind = "feasibility"
  /\ ~probeOut.done
  /\ probeOut' = [done |-> TRUE, val |-> FeasibilityScore(probe.in)]
  /\ UNCHANGED <<progVars, probe>>

\* project_skill_mapping["web_development"], hiring_manager lines 221-224
WebDevelopmentSkills ==
  <<"Frontend Development", "Backend Development", "Database Design",
    "DevOps", "UI/UX Design", "Product Management">>

\* Python s[:n] and s[n:] for n >= 0
SliceTo(s, n) == SubSeq(s, 1, Min({n, Len(s)}))
SliceFrom(s, n) == SubSeq(s, Min({n, Len(s)}) + 1, Len(s))

\* skill_gaps = [skill for skill in required_skills if skill not in current_skills]
SkillGaps(required, current) ==
  LET missing(k) == required[k] \notin current
      ks == {k \in 1..Len(required) : missing(k)}
  IN [i \in 1..Cardinality(ks) |-> required[CHOOSE k \in ks : Cardinality({j \in ks : j <= k}) = i]]

\* Variant of TeamNeedsLists whose future_needs starts after the third gap.
TeamNeedsListsSkipThird(gaps) ==
  [prioritySkills |-> SliceTo(gaps, 3),
   immediateNeeds |-> IF gaps # <<>> THEN SliceTo(gaps, 2) ELSE <<>>,
   futureNeeds |-> IF Len(gaps) > 2 THEN SliceFrom(gaps, 3) ELSE <<>>]

\* Lines 275-283: priority_skills, immediate_needs, future_needs.
TeamNeedsLists(gaps) ==
  [prioritySkills |-> SliceTo(gaps, 3),
   immediateNeeds |-> IF gaps # <<>> THEN SliceTo(gaps, 2) ELSE <<>>,
   futureNeeds |-> IF Len(gaps) > 2 THEN SliceFrom(gaps, 2) ELSE <<>>]

\* analyze_team_needs with a web project and current_skills = c.
AnalyzeTeamNeeds(c) ==
  LET gaps == SkillGaps(WebDevelopmentSkills, c)
  IN [skillGaps |-> gaps] @@ TeamNeedsLists(gaps)

ApplyAnalyzeTeamNeeds ==
  /\ probe.kind = "team"
  /\ ~probeOut.done
  /\ probeOut' = [done |-> TRUE, val |-> AnalyzeTeamNeeds(probe.in)]
  /\ UNCHANGED <<progVars, probe>>

\* int(x) of a non-integral quotient a / b: truncation toward zero
TruncDiv(a, b) == IF a >= 0 THEN a \div b ELSE -((-a) \div b)

\* phases of create_project_plan (lines 31-37), in insertion order, with
\* the time allocation in percent.
ProjectPhases ==
  <<[name |-> "Planning & Discovery", pct |-> 15],
    [name |-> "Design & Architecture", pct |-> 20],
    [name |-> "Development", pct |-> 45],
    [name |-> "Testing & QA", pct |-> 15],
    [name |-> "Deployment & Launch", pct |-> 5]>>

\* How far below zero the integer inputs of the pure helpers go.
NegSpan == 2
MaxWeeks == 24

\* Variant of PhaseDuration without the one-week minimum.
PhaseDurationUnfloored(d, pct) == TruncDiv(d * pct, 100)

\* Lines 44-45: int(duration_weeks * time_allocation), at least 1.
PhaseDuration(d, pct) == Max(1, TruncDiv(d * pct, 100))

RECURSIVE PhaseEnd(_, _)
\* current_date after the first k phases, in weeks after start_date.
PhaseEnd(d, k) == IF k = 0 THEN 0 ELSE PhaseEnd(d, k - 1) + PhaseDuration(d, ProjectPhases[k].pct)

\* create_project_plan(duration_weeks=d), lines 6-87: the milestones and
\* the estimated end date, as weeks after start_date.
CreateProjectPlan(d) ==
  [milestones |->
     [k \in 1..Len(ProjectPhases) |->
        [phase |-> ProjectPhases[k].name,
         start |-> PhaseEnd(d, k - 1),
         end |-> PhaseEnd(d, k - 1) + PhaseDuration(d, ProjectPhases[k].pct),
         durationWeeks |-> PhaseDuration(d, ProjectPhases[k].pct)]],
   startDate |-> 0,
   estimatedEnd |-> PhaseEnd(d, Len(ProjectPhases))]

ApplyCreateProjectPlan ==
  /\ probe.kind = "plan"
  /\ ~probeOut.done
  /\ probeOut' = [done |-> TRUE, val |-> CreateProjectPlan(probe.in)]
  /\ UNCHANGED <<progVars, probe>>

\* velocity_status of track_project_progress (lines 120-125), in insertion
\* order, bounds in hundredths.
VelocityStatus ==
  <<[rating |-> "excellent", lo |-> 90, hi |-> 100],
    [rating |-> "good", lo |-> 75, hi |-> 90],
    [rating |-> "concerning", lo |-> 60, hi |-> 75],
    [rating |-> "critical", lo |-> 0, hi |-> 60]>>
\* team_velocity in hundredths
Velocities == -5..105

RECURSIVE VelocityRatingFrom(_, _)
VelocityRatingFrom(v, k) ==
  IF k > Len(VelocityStatus) THEN "good"
  ELSE IF VelocityStatus[k].lo <= v /\ v < VelocityStatus[k].hi THEN VelocityStatus[k].rating
  ELSE VelocityRatingFrom(v, k + 1)

RECURSIVE VelocityRatingClosedFrom(_, _)
VelocityRatingClosedFrom(v, k) ==
  IF k > Len(VelocityStatus) THEN "good"
  ELSE IF VelocityStatus[k].lo <= v /\ v <= VelocityStatus[k].hi THEN VelocityStatus[k].rating
  ELSE VelocityRatingClosedFrom(v, k + 1)

\* Variant of VelocityRating with closed intervals.
VelocityRatingClosed(v) == VelocityRatingClosedFrom(v, 1)

\* Lines 127-131: the first rating whose interval holds v, else "good".
VelocityRating(v) == VelocityRatingFrom(v, 1)

ApplyVelocityRating ==
  /\ probe.kind = "velocity"
  /\ ~probeOut.done
  /\ probeOut' = [done |-> TRUE, val |-> VelocityRating(probe.in)]
  /\ UNCHANGED <<progVars, probe>>

\* assessment_templates of design_screening_process (lines 121-142):
\* technical and soft skills per role_type.
AssessmentTemplates ==
  [engineering |-> [technical |-> <<"Coding", "System Design", "Problem Solving">>,
                    soft |-> <<"Communication", "Collaboration", "Learning Agility">>],
   design |-> [technical |-> <<"Design Tools", "User Research", "Prototyping">>,
               soft |-> <<"Creativity", "User Empathy", "Presentation">>],
   product |-> [technical |-> <<"Product Strategy", "Analytics", "User Research">>,
                soft |-> <<"Leadership", "Communication", "Strategic Thinking">>],
   data |-> [technical |-> <<"Statistics", "Programming", "Data Analysis">>,
             soft |-> <<"Business Acumen", "Communication", "Critical Thinking">>]]
RoleTypes == {"engineering", "design", "product", "data", "sales"}
StageNames == <<"Initial Screening", "Technical Assessment", "Team Interview", "Final Interview", "Reference Check">>
MaxStages == 7

\* assessment_templates.get(role_type, assessment_templates["engineering"])
ScreeningTemplate(r) ==
  IF r \in DOMAIN AssessmentTemplates THEN AssessmentTemplates[r] ELSE AssessmentTemplates["engineering"]

\* len(range(min(n, len(stage_names))))
StageCount(n) == Max(0, Min({n, Len(StageNames)}))

\* Variant of ScreeningStages whose technical stage is the third.
ScreeningStagesThirdTechnical(r, n) ==
  [i \in 1..StageCount(n) |->
     [stage |-> i, name |-> StageNames[i],
      focus |-> IF i = 3 THEN ScreeningTemplate(r).technical ELSE ScreeningTemplate(r).soft]]

\* Lines 147-158: stages for i in range(min(interview_stages, 5)); the
\* stage with i == 1 (number 2) assesses technical skills.
ScreeningStages(r, n) ==
  [i \in 1..StageCount(n) |->
     [stage |-> i, name |-> StageNames[i],
      focus |-> IF i - 1 = 1 THEN ScreeningTemplate(r).technical ELSE ScreeningTemplate(r).soft]]

\* design_screening_process(role_type, interview_stages=n), lines 97-195
DesignScreeningProcess(in) ==
  [totalStages |-> in.stages, stages |-> ScreeningStages(in.role, in.stages)]

ApplyDesignScreeningProcess ==
  /\ probe.kind = "screening"
  /\ ~probeOut.done
  /\ probeOut' = [done |-> TRUE, val |-> DesignScreeningProcess(probe.in)]
  /\ UNCHANGED <<progVars, probe>>

\* A user story as organize_stories_by_theme and calculate_story_statistics
\* read it: its tags (extract_story_tags, lines 622-638), whether its
\* story text mentions "user", "login" or "profile", and its priority.
\* Its id is its position ("US-001", ...).
StoryTagSets ==
  {<<"general">>, <<"security">>, <<"integration", "security">>, <<"performance">>, <<"ui">>, <<"data">>}
StoryKinds == [tags : StoryTagSets, userText : BOOLEAN, priority : {"High", "Low"}]
MaxStories == 2
StoryLists == UNION {[1..n -> StoryKinds] : n \in 0..MaxStories}
ThemeNames == {"User Management", "Core Functionality", "Integration", "Security", "Performance", "Other"}

\* Lines 652-664: the theme of one story.
ThemeOf(st) ==
  IF "security" \in Range(st.tags) THEN "Security"
  ELSE IF "integration" \in Range(st.tags) THEN "Integration"
  ELSE IF "performance" \in Range(st.tags) THEN "Performance"
  ELSE IF st.userText THEN "User Management"
  ELSE IF "general" \in Range(st.tags) THEN "Core Functionality"
  ELSE "Other"

RECURSIVE ThemeIds(_, _, _)
\* The ids appended to themes[t], in order, from story k on.
ThemeIds(S, t, k) ==
  IF k > Len(S) THEN <<>>
  ELSE (IF ThemeOf(S[k]) = t THEN <<k>> ELSE <<>>) \o ThemeIds(S, t, k + 1)

\* Variant of OrganizeStoriesByTheme that keeps the empty themes.
OrganizeStoriesByThemeUnpruned(S) == [t \in ThemeNames |-> ThemeIds(S, t, 1)]

\* organize_stories_by_theme(user_stories), lines 640-669
OrganizeStoriesByTheme(S) ==
  [t \in {u \in ThemeNames : ThemeIds(S, u, 1) # <<>>} |-> ThemeIds(S, t, 1)]

\* priority_counts of calculate_story_statistics, lines 675-678
PriorityCounts(S) ==
  [pr \in {S[i].priority : i \in 1..Len(S)} |-> Cardinality({i \in 1..Len(S) : S[i].priority = pr})]

ApplyStoryStatistics ==
  /\ probe.kind = "storystats"
  /\ ~probeOut.done
  /\ probeOut' = [done |-> TRUE,
                  val |-> [themes |-> OrganizeStoriesByTheme(probe.in),
                           totalStories |-> Len(probe.in),
                           priorityDistribution |-> PriorityCounts(probe.in)]]
  /\ UNCHANGED <<progVars, probe>>

\* Python s[:n] for any integer n
PyPrefix(s, n) == IF n >= 0 THEN SliceTo(s, n) ELSE SubSeq(s, 1, Max(0, Len(s) + n))

BaseRoles == <<"Tech Lead", "Developer", "Designer", "Product Manager", "QA Engineer">>
MidExtraRoles == <<"DevOps Engineer", "Data Analyst">>
LargeExtraRoles == <<"DevOps Engineer", "Data Analyst", "Security Engineer", "Technical Writer", "Scrum Master">>
MaxTeam == 12

\* Variant of GenerateTeamRoles that adds all five extra roles from size 4.
GenerateTeamRolesWideMid(n) ==
  IF n <= 3 THEN PyPrefix(BaseRoles, n) ELSE BaseRoles \o PyPrefix(LargeExtraRoles, n)

\* generate_team_roles(team_size), lines 347-359
GenerateTeamRoles(n) ==
  IF n <= 3 THEN PyPrefix(BaseRoles, n)
  ELSE IF n <= 8 THEN BaseRoles \o PyPrefix(MidExtraRoles, n)
  ELSE BaseRoles \o PyPrefix(LargeExtraRoles, n)

ApplyGenerateTeamRoles ==
  /\ probe.kind = "roles"
  /\ ~probeOut.done
  /\ probeOut' = [done |-> TRUE, val |-> GenerateTeamRoles(probe.in)]
  /\ UNCHANGED <<progVars, probe>>

MaxBody == 3
BodyChars == {"x", " ", "\t", "\n", "\r"}
\* Non-empty "body" values of a spec {"function_name": "ping", "body": b}
Bodies == UNION {[1..n -> BodyChars] : n \in 1..MaxBody}
BodySpec(b) == [NoSpec EXCEPT !.hasFn = TRUE, !.fn = NamePing, !.body = b]

ApplyRenderBody ==
  /\ probe.kind = "render"
  /\ ~probeOut.done
  /\ probeOut' = [done |-> TRUE, val |-> RenderFunctionBlock(BodySpec(probe.in))]
  /\ UNCHANGED <<progVars, probe>>

PureInputs ==
  {[kind |-> "slug", in |-> a] : a \in AgentNames}
    \cup {[kind |-> "sig", in |-> ps] : ps \in ParamLists}
    \cup {[kind |-> "body", in |-> r] : r \in ReturnRecords}
    \cup {[kind |-> "base", in |-> c] : c \in ToolContexts}
    \cup {[kind |-> "stories", in |-> x] : x \in StoriesInputs}
    \cup {[kind |-> "track", in |-> x] : x \in TrackInputs}
    \cup {[kind |-> "budget", in |-> b] : b \in BudgetValues}
    \cup {[kind |-> "stakeholder", in |-> g] : g \in StakeholderGroups}
    \cup {[kind |-> "frequency", in |-> f] : f \in Frequencies}
    \cup {[kind |-> "arch", in |-> [system |-> t, scale |-> sc]] : t \in SystemTypes, sc \in Scales}
    \cup {[kind |-> "req", in |-> r] : r \in Requirements}
    \cup {[kind |-> "feasibility", in |-> x] : x \in FeasibilityInputs}
    \cup {[kind |-> "team", in |-> c] : c \in SUBSET Range(WebDevelopmentSkills)}
    \cup {[kind |-> "plan", in |-> d] : d \in -NegSpan..MaxWeeks}
    \cup {[kind |-> "velocity", in |-> v] : v \in Velocities}
    \cup {[kind |-> "screening", in |-> [role |-> r, stages |-> n]] : r \in RoleTypes, n \in -NegSpan..MaxStages}
    \cup {[kind |-> "storystats", in |-> S] : S \in StoryLists}
    \cup {[kind |-> "roles", in |-> n] : n \in -NegSpan..MaxTeam}
    \cup {[kind |-> "render", in |-> b] : b \in Bodies}

PureInit ==
  /\ BaseInit
  /\ probe \in PureInputs
  /\ probeOut = NoOut

PureNext ==
  \/ ApplySlug
  \/ ApplyParamSig
  \/ ApplyDefaultBody
  \/ ApplyResolveBase
  \/ ApplyCreateUserStories
  \/ ApplyTrackProjectProgress
  \/ ApplyBudgetConsiderations
  \/ ApplyStakeholderRequirements
  \/ ApplyNextCommunicationDate
  \/ ApplyCreateArchitectureDiagram
  \/ ApplyRequirementScores
  \/ ApplyAssessFeasibility
  \/ ApplyAnalyzeTeamNeeds
  \/ ApplyCreateProjectPlan
  \/ ApplyVelocityRating
  \/ ApplyDesignScreeningProcess
  \/ ApplyStoryStatistics
  \/ ApplyGenerateTeamRoles
  \/ ApplyRenderBody

PureSpec == PureInit /\ [][PureNext]_vars


\* ---------------------------------------------------------------------
\* Properties
\* ---------------------------------------------------------------------
FnNames == {NamePing, NameG}

\* The spec's function_name matches ^[A-Za-z_][A-Za-z0-9_]*$
NameValid(s) == s.hasFn /\ ValidIdent(s.fn)

\* b occurs in t
Contains(t, b) == \E i \in 1..Len(t) : t[i] = b[1] /\ Match(t, i, b)

RECURSIVE ConcatBlocks(_)
ConcatBlocks(ss) ==
  IF ss = <<>> THEN <<>> ELSE RenderFunctionBlock(Head(ss)) \o ConcatBlocks(Tail(ss))

\* The module text an invocation started from.
BaseText(p) == IF readFile[p].exists THEN ReadText(readFile[p].text) ELSE RenderHeader(args[p].agent)

\* The invocation of p has returned (or raised).
Returned(p) == started[p] /\ pc[p] = "done"

\* C1: in every reachable state the module file holds at most one
\* top-level "async def <name>(" line for every function name.
C1_AtMostOneBlockPerName ==
  \A f \in FnNames : DefCount(pyFile.text, f) <= 1

\* C2: after an overwrite invocation that re-defines a function f already
\* in the file, the file holds exactly one block for f and it is the newly
\* rendered one.
C2_OverwriteReplaces ==
  \A p \in SeqProcs :
    (Returned(p) /\ status[p] = "success" /\ args[p].overwrite) =>
      \A i \in 1..Len(args[p].tools) :
        LET s == args[p].tools[i]
        IN (/\ NameValid(s)
            /\ FunctionExists(BaseText(p), s.fn)
            /\ \A j \in (i + 1)..Len(args[p].tools) : args[p].tools[j].fn # s.fn)
           => /\ DefCount(pyFile.text, s.fn) = 1
              /\ Contains(pyFile.text, RenderFunctionBlock(s))

\* The entry of skipped that reports a spec already present or invalid.
SkipReport(s) == IF NameValid(s) THEN s.fn ELSE InvalidSkipEntry(s)

\* C3: a second invocation with the same non-empty agent_name and spec
\* list and overwrite=false returns success with created = [], every spec
\* reported in skipped, and leaves the file as the first invocation left it.
C3_Idempotent ==
  \A p \in SeqProcs :
    (Returned(p) /\ again[p] /\ ~args[p].overwrite
       /\ args[p].agent # <<>> /\ args[p].tools # <<>>) =>
      /\ status[p] = "success"
      /\ created[p] = <<>>
      /\ skipped[p] = [i \in 1..Len(args[p].tools) |-> SkipReport(args[p].tools[i])]
      /\ pyFile = readFile[p]

\* One iteration of the loop on a spec with a valid function_name behaves
\* as created / skipped / replaced(created).
PerSpecStep(p) ==
  LET s == args[p].tools[idx[p]]
      t == text[p]
  IN (pc[p] = "loop" /\ idx[p] <= Len(args[p].tools) /\ NameValid(s)
        /\ (pc'[p] # pc[p] \/ idx'[p] # idx[p])) =>
       /\ ~FunctionExists(t, s.fn) =>
            /\ text'[p] = t \o RenderFunctionBlock(s)
            /\ created'[p] = Append(created[p], s.fn)
       /\ (FunctionExists(t, s.fn) /\ ~args[p].overwrite) =>
            /\ skipped'[p] = Append(skipped[p], s.fn)
            /\ text'[p] = t
       /\ (FunctionExists(t, s.fn) /\ args[p].overwrite) =>
            /\ DefCount(text'[p], s.fn) = 1
            /\ Contains(text'[p], RenderFunctionBlock(s))
            /\ created'[p] = Append(created[p], s.fn)

\* The end-to-end scenario: "Data Bot", [ping -> dict], overwrite=false,
\* fresh directory.
DataBotScenario(p) ==
  (Returned(p) /\ args[p] = [agent |-> DataBot, tools |-> <<SpecPing>>, overwrite |-> FALSE]
     /\ ~readFile[p].exists) =>
    /\ status[p] = "success"
    /\ AgentSlug(DataBot) = <<"d", "a", "t", "a", "_", "b", "o", "t">>
    /\ created[p] = <<NamePing>>
    /\ skipped[p] = <<>>
    /\ DefCount(pyFile.text, NamePing) = 1
    /\ AllDefCount(pyFile.text) = 1

\* C4: each spec with a valid name is created when absent, skipped (text
\* unchanged) when present and overwrite=false, replaced and created when
\* present and overwrite=true; and the "Data Bot" scenario holds.
C4_PerSpecStateMachine ==
  /\ [][\A p \in SeqProcs : PerSpecStep(p)]_vars
  /\ [](\A p \in SeqProcs : DataBotScenario(p))



\* A returned invocation of a batch mixing specs with an invalid name and
\* valid, renderable specs whose names are new and pairwise distinct.
PartialBatch(p) ==
  LET ts == args[p].tools
  IN /\ Returned(p)
     /\ args[p].agent # <<>>
     /\ AgentSlug(args[p].agent) # <<>>
     /\ \E i \in 1..Len(ts) : ~NameValid(ts[i])
     /\ \E i \in 1..Len(ts) : NameValid(ts[i])
     /\ \A i \in 1..Len(ts) :
          NameValid(ts[i]) =>
            /\ RenderOK(ts[i])
            /\ ~FunctionExists(BaseText(p), ts[i].fn)
            /\ \A j \in 1..Len(ts) : (j # i /\ NameValid(ts[j])) => ts[j].fn # ts[i].fn

NameInvalid(s) == ~NameValid(s)

\* C5: such a batch returns success, created lists exactly the valid names
\* in input order, skipped reports each invalid name with its reason, and
\* the file gains exactly one new block per valid spec.
C5_PartialFailureIsolation ==
  \A p \in SeqProcs :
    PartialBatch(p) =>
      LET V == SelectSeq(args[p].tools, NameValid)
          X == SelectSeq(args[p].tools, NameInvalid)
      IN /\ status[p] = "success"
         /\ created[p] = [i \in 1..Len(V) |-> V[i].fn]
         /\ skipped[p] = [i \in 1..Len(X) |-> InvalidSkipEntry(X[i])]
         /\ pyFile.text = BaseText(p) \o ConcatBlocks(V)

C5_Witness ==
  \E p \in SeqProcs :
    /\ PartialBatch(p)
    /\ status[p] = "success"
    /\ \E i, j, k \in 1..Len(args[p].tools) :
         /\ i < j /\ j < k
         /\ NameValid(args[p].tools[i]) /\ ~NameValid(args[p].tools[j]) /\ NameValid(args[p].tools[k])

\* C6: for a non-empty agent_name with a non-empty slug and a non-empty
\* spec list, a problem in one spec (such as an invalid parameter name)
\* never makes the invocation raise: it returns success and reports every
\* spec in created or skipped.
C6_BadSpecNonFatal ==
  \A p \in SeqProcs :
    (Returned(p) /\ args[p].agent # <<>> /\ AgentSlug(args[p].agent) # <<>>
       /\ args[p].tools # <<>>) =>
      /\ status[p] = "success"
      /\ Len(created[p]) + Len(skipped[p]) = Len(args[p].tools)

\* C7: an invocation with an empty agent_name or an empty spec list
\* returns status "error" and leaves the directory, __init__.py and the
\* module file as they were.
C7_ValidationBeforeIO ==
  [][\A p \in SeqProcs :
       (pc[p] \in {"idle", "done"} /\ (args'[p].agent = <<>> \/ args'[p].tools = <<>>)) =>
         /\ pc'[p] = "done"
         /\ status'[p] = "error"
         /\ UNCHANGED <<dirExists, initFile, pyFile>>]_vars

C7_Witness ==
  \E p \in SeqProcs :
    Returned(p) /\ status[p] = "error" /\ args[p].agent = <<>> /\ pyFile.exists

\* C8: every invocation returns a record (never raises), and its status is
\* "error" exactly when agent_name or the spec list is empty.
C8_AlwaysReturnsStatus ==
  \A p \in SeqProcs :
    Returned(p) =>
      /\ status[p] \in {"success", "error"}
      /\ (status[p] = "error" <=> (args[p].agent = <<>> \/ args[p].tools = <<>>))

\* C9: the module file is written only by the step that follows the whole
\* loop, with the accumulated text; an invocation that stops inside the
\* loop leaves the file as it found it.
C9_SingleFinalWrite ==
  /\ [][\A p \in SeqProcs :
          pyFile' # pyFile =>
            /\ pc[p] = "loop"
            /\ idx[p] > Len(args[p].tools)
            /\ pc'[p] = "done"
            /\ pyFile' = [exists |-> TRUE, text |-> text[p]]]_vars
  /\ [](\A p \in SeqProcs :
          Returned(p) =>
            IF status[p] = "success"
            THEN pyFile = [exists |-> TRUE, text |-> text[p]]
            ELSE pyFile = readFile[p])

C9_Witness ==
  \E p \in SeqProcs :
    Returned(p) /\ status[p] = "ValueError" /\ created[p] # <<>> /\ pyFile = readFile[p]

\* A returned, successful invocation one of whose created functions is not
\* in the module file.
LostUpdate(q) ==
  /\ Returned(q)
  /\ status[q] = "success"
  /\ \E i \in 1..Len(created[q]) : ~FunctionExists(pyFile.text, created[q][i])

\* C10: two racing invocations can lose a created block, and a lost block
\* always comes from the interleaving: whenever no write_text is half done,
\* another invocation that was already inside its loop or its write when
\* this one wrote has since written its own text.
C10_LostUpdateOnlyByRace ==
  \A q \in Procs :
    (LostUpdate(q) /\ \A p \in Procs : pc[p] # "writing") =>
      \E p \in clobberers[q] : Returned(p) /\ status[p] = "success"

C10_Witness == \E q \in Procs : LostUpdate(q) /\ \A p \in Procs : pc[p] # "writing"

\* The step after the loop of invocation p: the module write, artifact
\* registration and the return.
FinishStep(p) ==
  /\ pc[p] = "loop"
  /\ idx[p] > Len(args[p].tools)
  /\ pc'[p] = "done"

\* C11: when the loop has finished, the invocation returns status success
\* with the created and skipped lists of the loop and the module file
\* written, whatever the artifact service does (raise, return None, return
\* an object without an id); artifact_ids holds an id only when the service
\* returned an object with one.
C11_ArtifactFailureIgnored ==
  [][\A p \in SeqProcs :
       FinishStep(p) =>
         /\ status'[p] = "success"
         /\ created'[p] = created[p]
         /\ skipped'[p] = skipped[p]
         /\ pyFile' = [exists |-> TRUE, text |-> text[p]]
         /\ artifactIds'[p] = IF args[p].ctx = "withId" THEN <<ArtifactId>> ELSE <<>>]_vars

C11_Witness ==
  \E p \in SeqProcs :
    /\ Returned(p)
    /\ args[p].ctx = "raises"
    /\ status[p] = "success"
    /\ created[p] # <<>>
    /\ pyFile = [exists |-> TRUE, text |-> text[p]]

\* C12: for every non-empty agent_name the invocation gets past line 179
\* with a slug that is non-empty, made of [a-z0-9_] only, and a valid
\* Python identifier.
C12_SlugIsIdentifier ==
  (probe.kind = "slug" /\ probeOut.done) =>
    LET r == probeOut.val
    IN /\ r.raised = "none"
       /\ r.slug # <<>>
       /\ \A i \in 1..Len(r.slug) : r.slug[i] \in SlugChars
       /\ IdentCore(r.slug)

\* The stanza the claim describes for spec s under module path mp.
ExpectedStanza(mp, s) ==
  YamlToolType \o YamlModulePre \o mp \o YamlQuoteNl \o YamlBasePath
    \o YamlFnPre \o s.fn \o YamlQuoteNl
    \o YamlDescPre
    \o (IF SpecDescription(s) # <<>> THEN SpecDescription(s) ELSE s.fn \o ToolSuffix)
    \o YamlQuoteNl

\* C13: a successful invocation returns a yaml_tools_block made of one
\* stanza per input spec with a valid function name, created or skipped,
\* in input order, joined by newlines; each stanza names the module path,
\* the function and its description or "<name> tool.".
C13_YamlOneStanzaPerValidName ==
  \A p \in SeqProcs :
    (Returned(p) /\ status[p] = "success") =>
      LET V == SelectSeq(args[p].tools, YamlNamed)
      IN yaml[p] = JoinWith([i \in 1..Len(V) |-> ExpectedStanza(ModulePath(args[p].agent), V[i])],
                            Newline)

C13_Witness ==
  \E p \in SeqProcs :
    /\ Returned(p)
    /\ status[p] = "success"
    /\ Len(skipped[p]) = Len(args[p].tools)
    /\ \E i \in 1..Len(args[p].tools) : args[p].tools[i] = SpecInvalid
    /\ \E i \in 1..Len(args[p].tools) : args[p].tools[i] = SpecPingParen
    /\ yaml[p] # <<>>

IsRequired(p) == ~p.hasDefault
IsOptional(p) == p.hasDefault

\* C14: the rendered signature lists the required parameters in input
\* order, then the optional ones with their defaults in input order, then
\* tool_context=None and tool_config.
C14_RequiredBeforeOptional ==
  (probe.kind = "sig" /\ probeOut.done) =>
    LET ps == SelectSeq(probe.in, IsRequired) \o SelectSeq(probe.in, IsOptional)
    IN /\ probeOut.val.raised = "none"
       /\ probeOut.val.sig = JoinWith([i \in 1..Len(ps) |-> ParamSigItem(ps[i])]
                                        \o <<ToolContextParam, ToolConfigParam>>, CommaSp)

\* A declared return type that denotes a mapping: dict or Mapping in any
\* case, bare or subscripted.
DenotesMapping(r) ==
  /\ r.hasType
  /\ LET l == LowerStr(r.type)
     IN \/ l \in {DictWord, MappingWord}
        \/ Len(l) > 5 /\ SubSeq(l, 1, 5) = DictWord \o <<"[">>
        \/ Len(l) > 8 /\ SubSeq(l, 1, 8) = MappingWord \o <<"[">>

\* C15: a spec without a body gets the status-record body exactly when its
\* declared return type denotes a mapping, and the placeholder string
\* otherwise.
C15_DefaultBodyByMapping ==
  (probe.kind = "body" /\ probeOut.done) =>
    probeOut.val = <<IF DenotesMapping(probe.in) THEN DictBody ELSE StrBody>>

IsPrefix(a, b) == Len(a) <= Len(b) /\ SubSeq(b, 1, Len(a)) = a

\* The text of a module file before its first top-level async def line.
HeaderOf(t) ==
  LET D == {i \in 1..Len(t) : AsyncDefAt(t, i)}
  IN IF D = {} THEN t ELSE SubSeq(t, 1, Min(D) - 1)

\* C16: no step changes an existing __init__.py; no step changes the text
\* in front of the first function of an existing module file other than
\* by read_text's newline translation; the generated header appears only
\* in a module file that did not exist.
C16_NoTruncateNoRegen ==
  [][/\ (initFile.exists => initFile' = initFile)
     /\ (pyFile.exists /\ pyFile' # pyFile =>
           IsPrefix(ReadText(HeaderOf(pyFile.text)), pyFile'.text))
     /\ (~pyFile.exists /\ pyFile'.exists =>
           \E p \in Procs : IsPrefix(RenderHeader(args[p].agent), pyFile'.text))]_vars

C16_Witness ==
  \E p \in SeqProcs :
    /\ Returned(p)
    /\ status[p] = "success"
    /\ created[p] # <<>>
    /\ initFile.text = <<"x", "\n">>
    /\ IsPrefix(OwnHeader \o RenderFunctionBlock(SpecG), readFile[p].text)
    /\ IsPrefix(ReadText(OwnHeader), pyFile.text)

\* C17: the base directory is app_base_path when the context has a truthy
\* one, else component_base_path when truthy, else the fallback beside
\* the generator (also for a None context).
C17_BasePreference ==
  (probe.kind = "base" /\ probeOut.done) =>
    LET c == probe.in
    IN probeOut.val = CASE c.isNone -> FallbackBase
                        [] Truthy(c.app) -> c.app
                        [] Truthy(c.comp) -> c.comp
                        [] OTHER -> FallbackBase

C17_Witness ==
  /\ probe.kind = "base"
  /\ probeOut.done
  /\ probe.in.app = "/app"
  /\ probe.in.comp = "/comp"

\* C18: create_user_stories and track_project_progress return a record
\* with status "success" and raise nothing, for every input, empty
\* requirement lists and zero task counts included.
C18_DomainToolsNeverRaise ==
  (probe.kind \in {"stories", "track"} /\ probeOut.done) =>
    /\ probeOut.val.raised = "none"
    /\ probeOut.val.status = "success"

\* C19: the divisions by a caller-dependent count divide by max(count, 1):
\* the number of stories in create_user_stories, total_tasks in
\* track_project_progress.
C19_DivisorAtLeastOne ==
  /\ (probe.kind = "stories" /\ probeOut.done) =>
       probeOut.val.avgCriteria.den = Max(probe.in.n, 1)
  /\ (probe.kind = "track" /\ probeOut.done) =>
       probeOut.val.pct.den = Max(probe.in.total, 1)

\* C20: an unrecognised budget_constraints, stakeholder group or
\* communication_frequency yields a default value that is neither None
\* nor empty.
C20_EnumDefaultBranch ==
  /\ (probe.kind = "budget" /\ probeOut.done) => ~probeOut.val.isNone
  /\ (probe.kind = "stakeholder" /\ probeOut.done) => probeOut.val # <<>>
  /\ (probe.kind = "frequency" /\ probeOut.done) => probeOut.val > 0

\* C21: create_architecture_diagram returns the scale table's entry for a
\* known scale and the "medium" entry otherwise, and the pattern table's
\* entry for a known system_type and ["Layered Architecture"] otherwise.
C21_ArchitectureLookup ==
  (probe.kind = "arch" /\ probeOut.done) =>
    LET in == probe.in
        out == probeOut.val
    IN /\ out.status = "success"
       /\ out.infrastructureRecommendations =
            IF in.scale \in {"small", "medium", "large", "enterprise"}
            THEN ScaleRecommendations[in.scale] ELSE ScaleRecommendations["medium"]
       /\ out.recommendedPatterns =
            IF in.system \in {"web_application", "microservices", "data_pipeline", "mobile_app"}
            THEN ArchitecturePatterns[in.system] ELSE <<"Layered Architecture">>

C21_Witness ==
  /\ probe.kind = "arch"
  /\ probeOut.done
  /\ probe.in.scale = "huge"
  /\ probe.in.system = "serverless"

\* C22: every complexity score lies in 1..5, every story point estimate in
\* 1..13, and the feasibility score in 0.1..0.8 (1..8 tenths).
C22_ScoresClamped ==
  /\ (probe.kind = "req" /\ probeOut.done) =>
       /\ probeOut.val.complexity \in 1..5
       /\ probeOut.val.points \in 1..13
  /\ (probe.kind = "feasibility" /\ probeOut.done) => probeOut.val \in 1..8

C22_Witness ==
  /\ probe.kind = "req"
  /\ probeOut.done
  /\ {"integrate", "live", "security", "workflow"} \subseteq probe.in

\* C23: priority_skills holds the first min(3, |gaps|) gaps,
\* immediate_needs the first min(2, |gaps|), and immediate_needs followed
\* by future_needs is skill_gaps.
C23_GapSlices ==
  (probe.kind = "team" /\ probeOut.done) =>
    LET o == probeOut.val
        n == Len(o.skillGaps)
    IN /\ Len(o.prioritySkills) = Min({3, n})
       /\ Len(o.immediateNeeds) = Min({2, n})
       /\ \A i \in 1..Len(o.prioritySkills) : o.prioritySkills[i] = o.skillGaps[i]
       /\ \A i \in 1..Len(o.immediateNeeds) : o.immediateNeeds[i] = o.skillGaps[i]
       /\ o.immediateNeeds \o o.futureNeeds = o.skillGaps

C23_Witness ==
  /\ probe.kind = "team"
  /\ probeOut.done
  /\ Len(probeOut.val.skillGaps) >= 4

RECURSIVE IdentEnd(_, _)
\* The index after the identifier characters starting at j.
IdentEnd(t, j) ==
  IF j <= Len(t) /\ t[j] \in UpperChars \cup LowerChars \cup DigitChars \cup {"_"}
  THEN IdentEnd(t, j + 1) ELSE j

\* No open triple-quoted string at index i: an even number of
\* triple quotes before it.
OutsideDocstring(t, i) ==
  Cardinality({k \in 1..(i - 3) : Match(t, k, TripleQuote)}) % 2 = 0

\* The top-level "async def" lines of t outside docstrings, in order, and the blocks they
\* start (each up to the next such line), with the defined name.
DefStarts(t) ==
  LET D == {i \in 1..Len(t) : AsyncDefAt(t, i) /\ OutsideDocstring(t, i)}
  IN [k \in 1..Cardinality(D) |-> CHOOSE i \in D : Cardinality({j \in D : j <= i}) = k]
Blocks(t) ==
  LET S == DefStarts(t)
      name(i) == LET k == SkipWS(t, SkipWS(t, i + 5) + 3) IN SubSeq(t, k, IdentEnd(t, k) - 1)
  IN [k \in 1..Len(S) |->
        [name |-> name(S[k]),
         text |-> SubSeq(t, S[k], IF k < Len(S) THEN S[k + 1] - 1 ELSE Len(t))]]

\* The valid function names of invocation p's batch.
BatchNames(p) == {args[p].tools[i].fn : i \in {k \in 1..Len(args[p].tools) : NameValid(args[p].tools[k])}}

\* C24: the module file an invocation writes keeps the header and every
\* block whose name is not in the batch, unchanged and in the same order.
C24_OtherBlocksUntouched ==
  [][\A p \in SeqProcs :
       FinishStep(p) =>
         LET keep(b) == b.name \notin BatchNames(p)
         IN /\ HeaderOf(pyFile'.text) = HeaderOf(pyFile.text)
            /\ SelectSeq(Blocks(pyFile'.text), keep) = SelectSeq(Blocks(pyFile.text), keep)]_vars

\* C25: the five phases come in the fixed order, each lasts at least one
\* week, the first starts at start_date, each starts where the previous
\* ends, and estimated_end_date is the last end, start plus the sum of
\* the durations.
C25_ContiguousPhases ==
  (probe.kind = "plan" /\ probeOut.done) =>
    LET M == probeOut.val.milestones
    IN /\ Len(M) = 5
       /\ \A k \in 1..5 : M[k].phase = ProjectPhases[k].name
       /\ \A k \in 1..5 : M[k].durationWeeks >= 1 /\ M[k].end = M[k].start + M[k].durationWeeks
       /\ M[1].start = probeOut.val.startDate
       /\ \A k \in 2..5 : M[k].start = M[k - 1].end
       /\ probeOut.val.estimatedEnd = M[5].end
       /\ probeOut.val.estimatedEnd =
            probeOut.val.startDate + M[1].durationWeeks + M[2].durationWeeks + M[3].durationWeeks
              + M[4].durationWeeks + M[5].durationWeeks

C25_Witness ==
  /\ probe.kind = "plan"
  /\ probeOut.done
  /\ probe.in = 4

\* C26: velocity_rating is excellent on [0.9, 1.0), good on [0.75, 0.9),
\* concerning on [0.6, 0.75), critical on [0.0, 0.6), and good outside
\* [0, 1), 1.0 included.
C26_VelocityIntervals ==
  (probe.kind = "velocity" /\ probeOut.done) =>
    probeOut.val = CASE probe.in >= 90 /\ probe.in < 100 -> "excellent"
                     [] probe.in >= 75 /\ probe.in < 90 -> "good"
                     [] probe.in >= 60 /\ probe.in < 75 -> "concerning"
                     [] probe.in >= 0 /\ probe.in < 60 -> "critical"
                     [] OTHER -> "good"

C26_Witness ==
  /\ probe.kind = "velocity"
  /\ probeOut.done
  /\ probe.in = 100

\* C27: design_screening_process produces min(max(interview_stages, 0), 5)
\* stages numbered 1..n, stage 2 on the template's technical skills and
\* the others on its soft skills, and total_stages is the requested count.
C27_ScreeningStages ==
  (probe.kind = "screening" /\ probeOut.done) =>
    LET S == probeOut.val.stages
        T == ScreeningTemplate(probe.in.role)
    IN /\ Len(S) = Min({Max(probe.in.stages, 0), 5})
       /\ \A i \in 1..Len(S) :
            /\ S[i].stage = i
            /\ S[i].focus = IF i = 2 THEN T.technical ELSE T.soft
       /\ probeOut.val.totalStages = probe.in.stages

C27_Witness ==
  /\ probe.kind = "screening"
  /\ probeOut.done
  /\ probe.in.stages > 5

RECURSIVE SumOver(_, _)
SumOver(f, D) == IF D = {} THEN 0 ELSE LET x == CHOOSE y \in D : TRUE IN f[x] + SumOver(f, D \ {x})

\* C28: every story id is in exactly one theme, exactly once; no theme is
\* empty; the priority counts add up to total_stories.
C28_ThemesPartitionStories ==
  (probe.kind = "storystats" /\ probeOut.done) =>
    LET T == probeOut.val.themes
    IN /\ \A i \in 1..Len(probe.in) :
            Cardinality({t \in DOMAIN T : i \in Range(T[t])}) = 1
       /\ \A t \in DOMAIN T :
            /\ T[t] # <<>>
            /\ \A a, b \in 1..Len(T[t]) : T[t][a] = T[t][b] => a = b
       /\ SumOver(probeOut.val.priorityDistribution, DOMAIN probeOut.val.priorityDistribution)
            = probeOut.val.totalStories

C28_Witness ==
  /\ probe.kind = "storystats"
  /\ probeOut.done
  /\ Cardinality(DOMAIN probeOut.val.themes) = 2
  /\ Cardinality(DOMAIN probeOut.val.priorityDistribution) = 2

\* C29: generate_team_roles returns team_size distinct roles for team sizes
\* 0..3, 7 roles for 4..8 and 10 roles above 8.
C29_TeamRoleCounts ==
  (probe.kind = "roles" /\ probeOut.done) =>
    LET R == probeOut.val
        n == probe.in
    IN /\ (0 <= n /\ n <= 3) =>
            /\ Len(R) = n
            /\ \A a, b \in 1..Len(R) : R[a] = R[b] => a = b
       /\ (4 <= n /\ n <= 8) => Len(R) = 7
       /\ n > 8 => Len(R) = 10

C29_Witness ==
  /\ probe.kind = "roles"
  /\ probeOut.done
  /\ probe.in = 4

\* The signature line, docstring and log line of a block, each followed by
\* a newline.
BlockHead(s) ==
  LET r == Returns(s)
  IN AsyncDef \o s.fn \o <<"(">> \o RenderParamSig(s.params) \o Arrow \o ReturnType(r) \o Colon
       \o Newline \o Indent \o RenderDocstring(Description(s), s.params, r)
       \o Newline \o LogPre \o s.fn \o LogPost \o Newline

\* The lines of body b (str.splitlines), each non-blank one behind four
\* spaces, each followed by a newline.
IndentedBody(b) ==
  LET L == SplitLines(b)
  IN JoinWith([i \in 1..Len(L) |-> (IF Strip(L[i]) # <<>> THEN Indent \o L[i] ELSE L[i]) \o Newline],
              <<>>)

\* C30: a block with a body is the signature, docstring and log line, then
\* the body's lines in order with four spaces in front of every non-blank
\* one and blank ones as they are, then only newlines.
C30_BodyIndented ==
  (probe.kind = "render" /\ probeOut.done) =>
    LET pre == BlockHead(BodySpec(probe.in)) \o IndentedBody(probe.in)
    IN /\ IsPrefix(pre, probeOut.val)
       /\ \A k \in (Len(pre) + 1)..Len(probeOut.val) : probeOut.val[k] = "\n"

C30_Witness ==
  /\ probe.kind = "render"
  /\ probeOut.done
  /\ probe.in = <<"x", "\n", " ">>

====
